---- MODULE Spec2Model ----
(***************************************************************************)
(* A model of the turboply PLY codec: the scalar model, the header codec,  *)
(* the binary and ASCII scalar codecs, the stream reader and writer        *)
(* handles and the property binding engine (bind_reader / bind_writer).    *)
(*                                                                         *)
(* Representation.                                                         *)
(*  - A stream is a sequence of cells.  A header text line (with its       *)
(*    newline) is one cell holding the whitespace-separated tokens of the  *)
(*    line; the decimal row count of an element line is held as a digit    *)
(*    sequence.  A binary body byte is one cell.  An ASCII body token, a   *)
(*    separating space and a newline are one cell each.                    *)
(*  - A PlyScalar is a record [kind, v]: the active alternative of the     *)
(*    variant and its value.  Only the integer kinds carry body values in  *)
(*    this model; the float kinds appear in the header codec only.         *)
(*  - A row field is always held as a sequence of integers: a scalar       *)
(*    field is a sequence of length 1, a std::array<T,N> one of length N,  *)
(*    a std::vector<T> one of any length.                                  *)
(***************************************************************************)
EXTENDS Integers, Sequences, FiniteSets, TLC

VARIABLES
    writer,   \* the PlyStreamWriter handle with its output stream
    reader,   \* the PlyStreamReader handle with its input stream
    file,     \* the logical content of the file the reader was opened on
    wspecs,   \* the descriptors of the last bind_writer call
    rspecs,   \* the descriptors (with their containers) given to bind_reader
    result,   \* operation, error and reached calls of the last operation
    steps     \* number of operations performed

vars == <<writer, reader, file, wspecs, rspecs, result, steps>>

(***************************************************************************)
(* Scalar model                                                            *)
(***************************************************************************)
UNUSED == 0
INT8 == 1
UINT8 == 2
INT16 == 3
UINT16 == 4
INT32 == 5
UINT32 == 6
FLOAT32 == 7
FLOAT64 == 8

ScalarKind == 0..8

NumericKinds == 1..8

\* sizeof(T) of the C++ type behind a kind, in bytes
sizeofKind(k) ==
    CASE k \in {INT8, UINT8} -> 1
      [] k \in {INT16, UINT16} -> 2
      [] k \in {INT32, UINT32, FLOAT32} -> 4
      [] k = FLOAT64 -> 8

isSigned(k) == k \in {INT8, INT16, INT32}

\* static_cast<T>(x) between integer types: wrap to the width of T.
\* (32-bit targets: 2^32 is out of TLC's integer range, so a value
\* that would need wrapping there stops the evaluation instead of passing.)
static_cast(k, x) ==
    LET w == 8 * sizeofKind(k)
    IN  IF w >= 32
        THEN IF x < 0 /\ ~isSigned(k) THEN x + 2^w ELSE x
        ELSE LET m == 2^w
                 u == x % m
             IN  IF isSigned(k) /\ u >= m \div 2 THEN u - m ELSE u

\* ply_cast<T>(v): visit the variant and static_cast its value to T
ply_cast(k, v) == static_cast(k, v.v)

PlyScalar(k, x) == [kind |-> k, v |-> x]

\* sequencing of two statements: F applied to the value of v, with v
\* evaluated (once) before F starts
Then(v, F(_)) == CHOOSE out \in {F(x) : x \in {v}} : TRUE

\* C++ scalar types a row field may have, and PropertySpec's mapping to kinds
get_scalar_kind(T) ==
    CASE T = "int32_t" -> INT32
      [] T = "uint32_t" -> UINT32
      [] T = "int16_t" -> INT16
      [] T = "uint16_t" -> UINT16
      [] T = "uint8_t" -> UINT8
      [] T = "int8_t" -> INT8
      [] T = "char" -> INT8
      [] OTHER -> UNUSED

\* The alternative a PlyScalar holds when it is constructed from a value of
\* C++ type T (std::variant's converting constructor): the type itself for
\* the eight alternatives; a char is promoted to int.
variant_kind(T) == IF T = "char" THEN INT32 ELSE get_scalar_kind(T)

(***************************************************************************)
(* Streams                                                                 *)
(***************************************************************************)
ByteCell(b) == [t |-> "byte", b |-> b, toks |-> <<>>, digits |-> <<>>]

LineCell(toks, digits) == [t |-> "line", b |-> 0, toks |-> toks, digits |-> digits]

TokCell(chars) == [t |-> "tok", b |-> 0, toks |-> chars, digits |-> <<>>]

SpaceCell == [t |-> "sp", b |-> 0, toks |-> <<>>, digits |-> <<>>]

NewlineCell == [t |-> "nl", b |-> 0, toks |-> <<>>, digits |-> <<>>]

\* two's complement little-endian bytes of a value of kind k (\div rounds
\* down, so the bytes of a negative value come out sign-extended; bytes
\* beyond the fourth are the sign fill)
ToBytes(k, x) ==
    [i \in 1..sizeofKind(k) |->
        IF i <= 4 THEN (x \div 256^(i - 1)) % 256 ELSE IF x < 0 THEN 255 ELSE 0]

RECURSIVE SumBytes(_, _)
SumBytes(bs, i) ==
    IF i > Len(bs) THEN 0
    ELSE (IF bs[i] = 0 THEN 0 ELSE bs[i] * 256^(i - 1)) + SumBytes(bs, i + 1)

\* the value of kind k whose low bytes are bs (missing high bytes are 0)
FromBytes(k, bs) ==
    IF isSigned(k) /\ Len(bs) = sizeofKind(k) /\ bs[Len(bs)] >= 128
    THEN 0 - SumBytes([i \in 1..Len(bs) |-> 255 - bs[i]], 1) - 1
    ELSE SumBytes(bs, 1)

\* decimal digits of a natural number, most significant first
RECURSIVE ToDigits(_)
ToDigits(n) == IF n < 10 THEN <<n>> ELSE Append(ToDigits(n \div 10), n % 10)

RECURSIVE FromDigits(_)
FromDigits(ds) ==
    IF ds = <<>> THEN 0
    ELSE 10 * FromDigits(SubSeq(ds, 1, Len(ds) - 1)) + ds[Len(ds)]

DigitChar == <<"0", "1", "2", "3", "4", "5", "6", "7", "8", "9">>

\* std::to_chars of an integer: optional minus sign, then the decimal digits
to_chars(x) ==
    LET ds == ToDigits(IF x < 0 THEN 0 - x ELSE x)
        cs == [i \in 1..Len(ds) |-> DigitChar[ds[i] + 1]]
    IN  IF x < 0 THEN <<"-">> \o cs ELSE cs

(***************************************************************************)
(* Document model and header codec                                         *)
(***************************************************************************)
Err(kind, elem, prop) == [kind |-> kind, elem |-> elem, prop |-> prop]

NoErr == Err("none", "", "")

Property(name, valueKind, listKind) ==
    [name |-> name, valueKind |-> valueKind, listKind |-> listKind]

Element(name, count, properties) ==
    [name |-> name, count |-> count, properties |-> properties]

scalarKindNames ==
    << <<"unused", "unused">>,
       <<"char", "int8">>,
       <<"uchar", "uint8">>,
       <<"short", "int16">>,
       <<"ushort", "uint16">>,
       <<"int", "int32">>,
       <<"uint", "uint32">>,
       <<"float", "float32">>,
       <<"double", "float64">> >>

scalarKindToString(k) == scalarKindNames[k + 1][1]

\* the first table row one of whose spellings is s; ok = FALSE is the throw
scalarKindFromString(s) ==
    LET hits == {i \in 1..Len(scalarKindNames) :
                    s = scalarKindNames[i][1] \/ s = scalarKindNames[i][2]}
    IN  IF hits = {} THEN [ok |-> FALSE, kind |-> UNUSED]
        ELSE [ok |-> TRUE, kind |-> (CHOOSE i \in hits : \A j \in hits : i <= j) - 1]

formatHeader(format) ==
    IF format = "BINARY" THEN <<"format", "binary_little_endian", "1.0">>
    ELSE <<"format", "ascii", "1.0">>

isBinary(format) == format = "BINARY"

\* index of the first element named n, 0 when there is none (std::find_if)
FindElement(elements, n) ==
    LET hits == {i \in 1..Len(elements) : elements[i].name = n}
    IN  IF hits = {} THEN 0 ELSE CHOOSE i \in hits : \A j \in hits : i <= j

\* index of the first property named n, 0 when there is none (std::find_if)
FindProperty(properties, n) ==
    LET hits == {i \in 1..Len(properties) : properties[i].name = n}
    IN  IF hits = {} THEN 0 ELSE CHOOSE i \in hits : \A j \in hits : i <= j

(***************************************************************************)
(* PlyStreamWriter                                                         *)
(***************************************************************************)
\* PlyBase::PlyBase / PlyStreamWriter::PlyStreamWriter on an empty stream
NewWriter(format) ==
    [comments |-> <<>>, elements |-> <<>>, has_header |-> FALSE,
     format |-> format, os |-> <<>>, good |-> TRUE]

\* operator<< / write on the output stream: nothing is stored once the
\* stream has failed
Put(w, cells) == IF w.good THEN [w EXCEPT !.os = @ \o cells] ELSE w

addComment(w, c) == [w |-> [w EXCEPT !.comments = Append(@, c)], err |-> NoErr]

\* variant of addElement without the duplicate-name test
addElement_NoDuplicateTest(w, elem) ==
    [w |-> [w EXCEPT !.elements = Append(@, elem)], err |-> NoErr]

addElement(w, elem) ==
    IF FindElement(w.elements, elem.name) # 0
    THEN [w |-> w, err |-> Err("DuplicateElement", elem.name, "")]
    ELSE [w |-> [w EXCEPT !.elements = Append(@, elem)], err |-> NoErr]

\* variant of the property line that prints the value kind before the list kind
PropertyLine_ValueKindFirst(p) ==
    IF p.listKind # UNUSED
    THEN LineCell(<<"property", "list", scalarKindToString(p.valueKind),
                    scalarKindToString(p.listKind), p.name>>, <<>>)
    ELSE LineCell(<<"property", scalarKindToString(p.valueKind), p.name>>, <<>>)

PropertyLine(p) ==
    IF p.listKind # UNUSED
    THEN LineCell(<<"property", "list", scalarKindToString(p.listKind),
                    scalarKindToString(p.valueKind), p.name>>, <<>>)
    ELSE LineCell(<<"property", scalarKindToString(p.valueKind), p.name>>, <<>>)

ElementLines(e) ==
    <<LineCell(<<"element", e.name>>, ToDigits(e.count))>>
        \o [i \in 1..Len(e.properties) |-> PropertyLine(e.properties[i])]

RECURSIVE ElementsLines(_, _)
ElementsLines(elements, i) ==
    IF i > Len(elements) THEN <<>>
    ELSE ElementLines(elements[i]) \o ElementsLines(elements, i + 1)

HeaderLines(w) ==
    <<LineCell(<<"ply">>, <<>>), LineCell(formatHeader(w.format), <<>>)>>
        \o [i \in 1..Len(w.comments) |-> LineCell(<<"comment", w.comments[i]>>, <<>>)]
        \o ElementsLines(w.elements, 1)
        \o <<LineCell(<<"end_header">>, <<>>)>>

\* variant of writeHeader without the _has_header guard
writeHeader_Unguarded(w) ==
    [w |-> [Put(w, HeaderLines(w)) EXCEPT !.has_header = TRUE], err |-> NoErr]

writeHeader(w) ==
    IF w.has_header
    THEN [w |-> w, err |-> Err("HeaderAlreadyWritten", "", "")]
    ELSE [w |-> [Put(w, HeaderLines(w)) EXCEPT !.has_header = TRUE], err |-> NoErr]

\* BinaryHandler::writeImpl<T>
BinaryWriteImpl(w, v) ==
    LET bs == ToBytes(v.kind, v.v)
    IN  Put(w, [i \in 1..Len(bs) |-> ByteCell(bs[i])])

\* AsciiHandler::writeImpl<T>
AsciiWriteImpl(w, v) == Put(w, <<TokCell(to_chars(v.v)), SpaceCell>>)

\* PlyStreamWriter::writeScalar(v) -> ScalarHandler::writeScalar
writeScalar(w, v) ==
    IF isBinary(w.format) THEN BinaryWriteImpl(w, v) ELSE AsciiWriteImpl(w, v)

\* PlyStreamWriter::writeScalar(v, k) -> FormatHandler::writeScalar(os, v, k):
\* visitScalar throws for a kind outside the eight numeric ones
writeScalarAs(w, v, k) ==
    IF k \notin NumericKinds
    THEN [w |-> w, err |-> Err("UnsupportedScalarKind", "", "")]
    ELSE [w |-> writeScalar(w, PlyScalar(k, ply_cast(k, v))), err |-> NoErr]

\* PlyStreamWriter::writeLineEnd: no-op for binary; ASCII seeks one
\* character back and overwrites it with a newline.  Seeking before the
\* start of the stream fails and leaves the stream in the failed state.
writeLineEnd(w) ==
    IF isBinary(w.format) \/ ~w.good THEN w
    ELSE IF w.os = <<>> THEN [w EXCEPT !.good = FALSE]
    ELSE LET last == w.os[Len(w.os)]
         IN  IF last.t \in {"nl", "line"} THEN w
             ELSE [w EXCEPT !.os[Len(w.os)] = NewlineCell]

(***************************************************************************)
(* PropertySpec: a descriptor is                                           *)
(*   [element, fields, owning, rows]                                       *)
(* with fields a sequence of [name, type, shape, cap] (shape "scalar",     *)
(* "vector" or "array"; cap = N of std::array<T,N>), owning = whether      *)
(* _column_data is set, rows = the contents of _column_view.               *)
(***************************************************************************)
Field(name, type, shape, cap) ==
    [name |-> name, type |-> type, shape |-> shape, cap |-> cap]

Spec(element, fields, owning, rows) ==
    [element |-> element, fields |-> fields, owning |-> owning, rows |-> rows]

\* column_type_traits<...>::value_kind / list_kind
value_kind(f) == get_scalar_kind(f.type)

list_kind(f) ==
    CASE f.shape = "vector" -> UINT32
      [] f.shape = "array" -> UINT8
      [] OTHER -> UNUSED

\* PropertySpec::create
create(spec) ==
    Element(spec.element, Len(spec.rows),
            [i \in 1..Len(spec.fields) |->
                Property(spec.fields[i].name, value_kind(spec.fields[i]),
                         list_kind(spec.fields[i]))])

\* a value-initialised row of a descriptor (RowType{}): zeros; an empty
\* vector; an array of N zeros
DefaultField(f) ==
    CASE f.shape = "vector" -> <<>>
      [] f.shape = "array" -> [i \in 1..f.cap |-> 0]
      [] OTHER -> <<0>>

DefaultRow(spec) == [i \in 1..Len(spec.fields) |-> DefaultField(spec.fields[i])]

\* variant of resize that grows an owning container but never shrinks it
resize_GrowOnly(spec, n) ==
    IF spec.owning
    THEN [spec |-> [spec EXCEPT !.rows =
                      IF Len(spec.rows) >= n THEN spec.rows
                      ELSE [i \in 1..n |-> IF i <= Len(spec.rows) THEN spec.rows[i]
                                           ELSE DefaultRow(spec)]],
          err |-> NoErr]
    ELSE IF Len(spec.rows) # n
    THEN [spec |-> spec, err |-> Err("ElementCountMismatch", spec.element, "")]
    ELSE [spec |-> spec, err |-> NoErr]

\* PropertySpec::resize
resize(spec, n) ==
    IF spec.owning
    THEN [spec |-> [spec EXCEPT !.rows =
                      [i \in 1..n |-> IF i <= Len(spec.rows) THEN spec.rows[i]
                                      ELSE DefaultRow(spec)]],
          err |-> NoErr]
    ELSE IF Len(spec.rows) # n
    THEN [spec |-> spec, err |-> Err("ElementCountMismatch", spec.element, "")]
    ELSE [spec |-> spec, err |-> NoErr]

(***************************************************************************)
(* Conflict checking                                                       *)
(***************************************************************************)
prop_specs_conflict(A, B) ==
    IF A.element # B.element THEN FALSE
    ELSE \E I \in 1..Len(A.fields) : \E J \in 1..Len(B.fields) :
            A.fields[I].name = B.fields[J].name

\* variant of ConflictChecker that compares only the first descriptor with
\* the others (no recursion into the tail of the pack)
ConflictChecker_HeadOnly(specs) ==
    IF specs = <<>> THEN FALSE
    ELSE \E t \in 2..Len(specs) : prop_specs_conflict(Head(specs), specs[t])

RECURSIVE ConflictChecker(_)
ConflictChecker(specs) ==
    IF specs = <<>> THEN FALSE
    ELSE (\E t \in 2..Len(specs) : prop_specs_conflict(Head(specs), specs[t]))
            \/ ConflictChecker(Tail(specs))

check_property_conflicts(specs) == ConflictChecker(specs)

(***************************************************************************)
(* bind_writer                                                             *)
(***************************************************************************)
\* variant of Accumulate that merges same-named elements without comparing
\* their row counts
RECURSIVE Accumulate_NoCountCheck(_, _, _)
Accumulate_NoCountCheck(specs, i, unique) ==
    IF i > Len(specs) THEN [unique |-> unique, err |-> NoErr]
    ELSE LET new_elem == create(specs[i])
             it == FindElement(unique, new_elem.name)
         IN  IF it # 0
             THEN Accumulate_NoCountCheck(specs, i + 1,
                     [unique EXCEPT ![it].properties = @ \o new_elem.properties])
             ELSE Accumulate_NoCountCheck(specs, i + 1, Append(unique, new_elem))

\* the accumulation of unique_elements (first pack expansion)
RECURSIVE Accumulate(_, _, _)
Accumulate(specs, i, unique) ==
    IF i > Len(specs) THEN [unique |-> unique, err |-> NoErr]
    ELSE LET new_elem == create(specs[i])
             it == FindElement(unique, new_elem.name)
         IN  IF it # 0
             THEN IF unique[it].count # new_elem.count
                  THEN [unique |-> unique,
                        err |-> Err("ElementCountMismatch", new_elem.name, "")]
                  ELSE Accumulate(specs, i + 1,
                          [unique EXCEPT ![it].properties = @ \o new_elem.properties])
             ELSE Accumulate(specs, i + 1, Append(unique, new_elem))

\* for (elem : unique_elements) writer.addElement(elem)
RECURSIVE AddElements(_, _, _)
AddElements(w, unique, i) ==
    IF i > Len(unique) THEN [w |-> w, err |-> NoErr, n |-> i - 1]
    ELSE LET r == addElement(w, unique[i])
         IN  IF r.err # NoErr THEN [w |-> r.w, err |-> r.err, n |-> i]
             ELSE AddElements(r.w, unique, i + 1)

\* for (v : container) writer.writeScalar(v), over items[lo..hi] in order:
\* the range is split in halves, the left half written before the right
RECURSIVE WriteItems(_, _, _, _, _)
WriteItems(w, T, items, lo, hi) ==
    IF lo > hi THEN w
    ELSE IF lo = hi THEN writeScalar(w, PlyScalar(variant_kind(T), items[lo]))
    ELSE Then(WriteItems(w, T, items, lo, (lo + hi) \div 2),
              LAMBDA left : WriteItems(left, T, items, (lo + hi) \div 2 + 1, hi))

\* one field of one row (the innermost lambda of bind_writer)
WriteField(w, f, val) ==
    IF list_kind(f) # UNUSED
    THEN Then(writeScalarAs(w, PlyScalar(UINT32, static_cast(UINT32, Len(val))),
                            list_kind(f)).w,
              LAMBDA w1 : WriteItems(w1, f.type, val, 1, Len(val)))
    ELSE writeScalar(w, PlyScalar(variant_kind(f.type), val[1]))

RECURSIVE WriteFields(_, _, _, _)
WriteFields(w, spec, row, fi) ==
    IF fi > Len(spec.fields) THEN w
    ELSE Then(WriteField(w, spec.fields[fi], row[fi]),
              LAMBDA w1 : WriteFields(w1, spec, row, fi + 1))

\* variant of WriteRowSpecs that visits the descriptors in the reverse of
\* the argument order
RECURSIVE WriteRowSpecs_Reversed(_, _, _, _, _)
WriteRowSpecs_Reversed(w, specs, elem, ri, si) ==
    IF si > Len(specs) THEN w
    ELSE LET sj == Len(specs) + 1 - si
         IN  IF specs[sj].element = elem.name
             THEN Then(WriteFields(w, specs[sj], specs[sj].rows[ri], 1),
                       LAMBDA w1 : WriteRowSpecs_Reversed(w1, specs, elem, ri, si + 1))
             ELSE WriteRowSpecs_Reversed(w, specs, elem, ri, si + 1)

\* one row of one element: every descriptor of that element, in argument order
RECURSIVE WriteRowSpecs(_, _, _, _, _)
WriteRowSpecs(w, specs, elem, ri, si) ==
    IF si > Len(specs) THEN w
    ELSE IF specs[si].element = elem.name
    THEN Then(WriteFields(w, specs[si], specs[si].rows[ri], 1),
              LAMBDA w1 : WriteRowSpecs(w1, specs, elem, ri, si + 1))
    ELSE WriteRowSpecs(w, specs, elem, ri, si + 1)

RECURSIVE WriteRows(_, _, _, _)
WriteRows(w, specs, elem, ri) ==
    IF ri > elem.count THEN w
    ELSE Then(writeLineEnd(WriteRowSpecs(w, specs, elem, ri, 1)),
              LAMBDA w1 : WriteRows(w1, specs, elem, ri + 1))

RECURSIVE WriteBody(_, _, _, _)
WriteBody(w, specs, unique, ei) ==
    IF ei > Len(unique) THEN w
    ELSE Then(WriteRows(w, specs, unique[ei], 1),
              LAMBDA w1 : WriteBody(w1, specs, unique, ei + 1))

\* bind_writer(writer, specs...).  calls lists the writer operations the
\* call reached, in order.
bind_writer(w, specs) ==
    IF check_property_conflicts(specs)
    THEN [w |-> w, err |-> Err("PropertyConflict", "", ""), calls |-> <<>>]
    ELSE LET acc == Accumulate(specs, 1, <<>>)
         IN  IF acc.err # NoErr
             THEN [w |-> w, err |-> acc.err, calls |-> <<>>]
             ELSE LET added == AddElements(w, acc.unique, 1)
                      adds == [i \in 1..added.n |-> "addElement"]
                  IN  IF added.err # NoErr
                      THEN [w |-> added.w, err |-> added.err, calls |-> adds]
                      ELSE LET hdr == writeHeader(added.w)
                           IN  IF hdr.err # NoErr
                               THEN [w |-> hdr.w, err |-> hdr.err,
                                     calls |-> Append(adds, "writeHeader")]
                               ELSE [w |-> WriteBody(hdr.w, specs, acc.unique, 1),
                                     err |-> NoErr,
                                     calls |-> adds \o <<"writeHeader", "flush">>]

(***************************************************************************)
(* PlyStreamReader                                                         *)
(***************************************************************************)
\* PlyStreamReader::PlyStreamReader on a stream holding cells; log records
\* the kinds readScalar was asked for, in order
NewReader(cells, format) ==
    [comments |-> <<>>, elements |-> <<>>, has_header |-> FALSE,
     format |-> format, is |-> cells, pos |-> 0, good |-> TRUE, log |-> <<>>]

IsNewline(c) == c.t = "nl" \/ (c.t = "byte" /\ c.b = 10)

\* the number of cells std::getline extracts from position p: one header
\* line cell, or raw cells up to and including the next newline
RECURSIVE LineExtent(_, _)
LineExtent(cells, p) ==
    IF p + 1 > Len(cells) THEN 0
    ELSE IF cells[p + 1].t = "line" \/ IsNewline(cells[p + 1]) THEN 1
    ELSE 1 + LineExtent(cells, p + 1)

\* std::getline(_is, line): ok = FALSE when nothing could be extracted
getline(r) ==
    IF ~r.good \/ r.pos >= Len(r.is)
    THEN [r |-> [r EXCEPT !.good = FALSE], ok |-> FALSE, toks |-> <<>>, digits |-> <<>>]
    ELSE LET c == r.is[r.pos + 1]
         IN  IF c.t = "line"
             THEN [r |-> [r EXCEPT !.pos = @ + 1], ok |-> TRUE,
                   toks |-> c.toks, digits |-> c.digits]
             ELSE [r |-> [r EXCEPT !.pos = @ + LineExtent(r.is, r.pos)], ok |-> TRUE,
                   toks |-> <<>>, digits |-> <<>>]

\* line.starts_with(prefix), on the tokens of the line
starts_with(toks, prefix) ==
    Len(toks) >= Len(prefix) /\ SubSeq(toks, 1, Len(prefix)) = prefix

TokenAt(toks, i) == IF i <= Len(toks) THEN toks[i] ELSE ""

\* the "property" branch of parseHeader: the parsed property, or the throw
ParseProperty(toks) ==
    IF TokenAt(toks, 2) = "list"
    THEN LET lt == scalarKindFromString(TokenAt(toks, 3))
             vt == scalarKindFromString(TokenAt(toks, 4))
         IN  IF ~lt.ok \/ ~vt.ok THEN [ok |-> FALSE, p |-> Property("", UNUSED, UNUSED)]
             ELSE [ok |-> TRUE, p |-> Property(TokenAt(toks, 5), vt.kind, lt.kind)]
    ELSE LET vt == scalarKindFromString(TokenAt(toks, 2))
         IN  IF ~vt.ok THEN [ok |-> FALSE, p |-> Property("", UNUSED, UNUSED)]
             ELSE [ok |-> TRUE, p |-> Property(TokenAt(toks, 3), vt.kind, UNUSED)]

\* the while (std::getline(_is, line)) loop of parseHeader; current is the
\* index of the element under construction, 0 for nullptr
RECURSIVE ParseLines(_, _)
ParseLines(r, current) ==
    LET g == getline(r)
    IN  IF ~g.ok THEN [r |-> [g.r EXCEPT !.has_header = TRUE], err |-> NoErr]
        ELSE IF starts_with(g.toks, <<"end_header">>)
        THEN [r |-> [g.r EXCEPT !.has_header = TRUE], err |-> NoErr]
        ELSE IF TokenAt(g.toks, 1) = "comment"
        THEN IF Len(g.toks) < 2
             THEN [r |-> g.r, err |-> Err("OutOfRange", "", "")]
             ELSE ParseLines([g.r EXCEPT !.comments = Append(@, g.toks[2])], current)
        ELSE IF TokenAt(g.toks, 1) = "element"
        THEN ParseLines([g.r EXCEPT !.elements =
                            Append(@, Element(TokenAt(g.toks, 2), FromDigits(g.digits), <<>>))],
                        Len(g.r.elements) + 1)
        ELSE IF TokenAt(g.toks, 1) = "property"
        THEN IF current = 0
             THEN [r |-> g.r, err |-> Err("HeaderParse", "", "property without element")]
             ELSE LET pp == ParseProperty(g.toks)
                  IN  IF ~pp.ok
                      THEN [r |-> g.r, err |-> Err("HeaderParse", "", "unsupported scalar type")]
                      ELSE ParseLines([g.r EXCEPT !.elements[current].properties =
                                          Append(@, pp.p)], current)
        ELSE ParseLines(g.r, current)

\* variant of parseHeader without the _has_header early return
parseHeader_Reparse(r) ==
    LET g1 == getline(r)
    IN  IF ~starts_with(g1.toks, <<"ply">>)
        THEN [r |-> g1.r, err |-> Err("HeaderParse", "", "missing magic")]
        ELSE LET g2 == getline(g1.r)
             IN  IF ~starts_with(g2.toks, formatHeader(r.format))
                 THEN [r |-> g2.r, err |-> Err("HeaderParse", "", "format mismatch")]
                 ELSE ParseLines(g2.r, 0)

parseHeader(r) ==
    IF r.has_header THEN [r |-> r, err |-> NoErr]
    ELSE LET g1 == getline(r)
         IN  IF ~starts_with(g1.toks, <<"ply">>)
             THEN [r |-> g1.r, err |-> Err("HeaderParse", "", "missing magic")]
             ELSE LET g2 == getline(g1.r)
                  IN  IF ~starts_with(g2.toks, formatHeader(r.format))
                      THEN [r |-> g2.r, err |-> Err("HeaderParse", "", "format mismatch")]
                      ELSE ParseLines(g2.r, 0)

\* getElements / getComments: parse on demand, then return the cached list
getElements(r) == LET p == parseHeader(r) IN [r |-> p.r, err |-> p.err, value |-> p.r.elements]

getComments(r) == LET p == parseHeader(r) IN [r |-> p.r, err |-> p.err, value |-> p.r.comments]

\* BinaryHandler::readImpl<T>: is.read of sizeof(T) bytes into a zeroed T.
\* A short read stores the bytes that were there and fails the stream; a
\* failed stream stores nothing.
BinaryReadImpl(r, k) ==
    IF ~r.good THEN [r |-> r, v |-> 0]
    ELSE LET n == sizeofKind(k)
             last == IF r.pos + n <= Len(r.is) THEN r.pos + n ELSE Len(r.is)
             bs == [i \in 1..(last - r.pos) |-> r.is[r.pos + i].b]
         IN  [r |-> [r EXCEPT !.pos = last, !.good = (Len(bs) = n)],
              v |-> FromBytes(k, bs)]

IsDigitChar(c) == \E d \in 1..10 : DigitChar[d] = c

DigitVal(c) == (CHOOSE d \in 1..10 : DigitChar[d] = c) - 1

\* length of the leading run of digit characters of cs from index i
RECURSIVE DigitRun(_, _)
DigitRun(cs, i) ==
    IF i > Len(cs) \/ ~IsDigitChar(cs[i]) THEN 0 ELSE 1 + DigitRun(cs, i + 1)

\* std::from_chars(first, last, v) for an integer type of kind k: an
\* optional minus sign (signed types only), then the longest run of digits;
\* whatever follows the digits is left unread and is no error
from_chars(k, cs) ==
    LET neg == isSigned(k) /\ cs # <<>> /\ cs[1] = "-"
        start == IF neg THEN 2 ELSE 1
        n == DigitRun(cs, start)
        mag == FromDigits([i \in 1..n |-> DigitVal(cs[start + i - 1])])
        val == IF neg THEN 0 - mag ELSE mag
    IN  IF n = 0 THEN [ok |-> FALSE, v |-> 0]
        ELSE IF static_cast(k, val) # val THEN [ok |-> FALSE, v |-> 0]
        ELSE [ok |-> TRUE, v |-> val]

\* number of whitespace cells from position p (operator>> skips them)
RECURSIVE SkipWs(_, _)
SkipWs(cells, p) ==
    IF p + 1 > Len(cells) \/ cells[p + 1].t \notin {"sp", "nl"} THEN 0
    ELSE 1 + SkipWs(cells, p + 1)

\* AsciiHandler::readImpl<T>
AsciiReadImpl(r, k) ==
    IF ~r.good THEN [r |-> r, v |-> 0, err |-> NoErr]
    ELSE LET p == r.pos + SkipWs(r.is, r.pos)
         IN  IF p + 1 > Len(r.is) \/ r.is[p + 1].t # "tok"
             THEN [r |-> [r EXCEPT !.pos = p, !.good = FALSE], v |-> 0, err |-> NoErr]
             ELSE LET fc == from_chars(k, r.is[p + 1].toks)
                  IN  IF ~fc.ok
                      THEN [r |-> [r EXCEPT !.pos = p + 1], v |-> 0,
                            err |-> Err("ParseValue", "", "")]
                      ELSE [r |-> [r EXCEPT !.pos = p + 1], v |-> fc.v, err |-> NoErr]

\* PlyStreamReader::readScalar(k) -> ScalarHandler::readScalar: visitScalar
\* throws for a kind outside the eight numeric ones
readScalar(r, k) ==
    IF k \notin NumericKinds
    THEN [r |-> r, v |-> PlyScalar(UNUSED, 0), err |-> Err("UnsupportedScalarKind", "", "")]
    ELSE LET rl == [r EXCEPT !.log = Append(@, k)]
         IN  IF isBinary(r.format)
             THEN LET b == BinaryReadImpl(rl, k)
                  IN  [r |-> b.r, v |-> PlyScalar(k, b.v), err |-> NoErr]
             ELSE LET a == AsciiReadImpl(rl, k)
                  IN  [r |-> a.r, v |-> PlyScalar(k, a.v), err |-> a.err]

(***************************************************************************)
(* bind_reader                                                             *)
(* The state threaded through the call is st = [r, specs, err]: the reader *)
(* handle, the descriptors with their containers, and the exception that   *)
(* ended the call (NoErr while it runs).                                   *)
(***************************************************************************)
\* static_cast<size_t>: a negative length wraps to a value far outside the
\* TLC's integer range
size_t_cast(x) == IF x < 0 THEN x + 2^64 ELSE x

\* variant of Discard that leaves the values in the stream
Discard_Nothing(r, kind, from, n) == [r |-> r, err |-> NoErr]

\* for (k = from; k < n; ++k) reader.readScalar(kind), values discarded
RECURSIVE Discard(_, _, _, _)
Discard(r, kind, from, n) ==
    IF from >= n THEN [r |-> r, err |-> NoErr]
    ELSE Then(readScalar(r, kind),
              LAMBDA x : IF x.err # NoErr THEN [r |-> x.r, err |-> x.err]
                         ELSE Discard(x.r, kind, from + 1, n))

\* the default column reader of a property: consume and discard
SkipColumn(st, prop) ==
    IF prop.listKind # UNUSED
    THEN Then(readScalar(st.r, prop.listKind),
              LAMBDA len :
                 IF len.err # NoErr THEN [st EXCEPT !.r = len.r, !.err = len.err]
                 ELSE Then(Discard(len.r, prop.valueKind, 0, static_cast(UINT32, len.v.v)),
                           LAMBDA d : [st EXCEPT !.r = d.r, !.err = d.err]))
    ELSE Then(readScalar(st.r, prop.valueKind),
              LAMBDA x : [st EXCEPT !.r = x.r, !.err = x.err])

\* container.resize(n) of a std::vector field
ResizeList(items, n) == [i \in 1..n |-> IF i <= Len(items) THEN items[i] ELSE 0]

\* for (k = 0; k < limit; ++k) container[k] = ply_cast<ScalarType>(readScalar(valueKind))
RECURSIVE Fill(_, _, _, _, _, _)
Fill(r, items, T, kind, k, limit) ==
    IF k >= limit THEN [r |-> r, items |-> items, err |-> NoErr]
    ELSE Then(readScalar(r, kind),
              LAMBDA x :
                 IF x.err # NoErr THEN [r |-> x.r, items |-> items, err |-> x.err]
                 ELSE Fill(x.r, [items EXCEPT ![k + 1] = ply_cast(get_scalar_kind(T), x.v)],
                           T, kind, k + 1, limit))

\* variant of ListLimit that always fills the whole capacity
ListLimit_Capacity(n, capacity) == capacity

\* size_t limit = std::min(n, capacity)
ListLimit(n, capacity) == IF n < capacity THEN n ELSE capacity

\* the end of the list branch: the values beyond limit are read and
\* discarded, the filled container is the field's new content
StoreList(st, filled, kind, limit, n, si, fi, ri) ==
    IF filled.err # NoErr
    THEN [st EXCEPT !.r = filled.r, !.err = filled.err,
                    !.specs[si].rows[ri][fi] = filled.items]
    ELSE Then(Discard(filled.r, kind, limit, n),
              LAMBDA rest : [st EXCEPT !.r = rest.r, !.err = rest.err,
                                       !.specs[si].rows[ri][fi] = filled.items])

\* the list branch once the length scalar len has been read
ReadList(st, len, prop, si, fi, ri) ==
    IF len.err # NoErr THEN [st EXCEPT !.r = len.r, !.err = len.err]
    ELSE LET f == st.specs[si].fields[fi]
             row_item == st.specs[si].rows[ri][fi]
             n == size_t_cast(len.v.v)
             container == IF f.shape = "vector" THEN ResizeList(row_item, n)
                          ELSE row_item
             limit == ListLimit(n, Len(container))
         IN  Then(Fill(len.r, container, f.type, prop.valueKind, 0, limit),
                  LAMBDA filled : StoreList(st, filled, prop.valueKind, limit, n, si, fi, ri))

\* the list branch of a bound column reader (if constexpr list_kind != UNUSED)
BoundList(st, prop, si, fi, ri) ==
    IF prop.listKind = UNUSED
    THEN [st EXCEPT !.err = Err("TypeMismatch", "", st.specs[si].fields[fi].name)]
    ELSE Then(readScalar(st.r, prop.listKind),
              LAMBDA len : ReadList(st, len, prop, si, fi, ri))

\* the scalar branch once the value x has been read
StoreScalar(st, x, si, fi, ri) ==
    IF x.err # NoErr THEN [st EXCEPT !.r = x.r, !.err = x.err]
    ELSE [st EXCEPT !.r = x.r,
                    !.specs[si].rows[ri][fi] =
                        <<ply_cast(get_scalar_kind(st.specs[si].fields[fi].type), x.v)>>]

\* variant of BoundScalar without the list-vs-scalar test
BoundScalar_Unchecked(st, prop, si, fi, ri) ==
    Then(readScalar(st.r, prop.valueKind), LAMBDA x : StoreScalar(st, x, si, fi, ri))

\* the scalar branch of a bound column reader
BoundScalar(st, prop, si, fi, ri) ==
    IF prop.listKind # UNUSED
    THEN [st EXCEPT !.err = Err("TypeMismatch", "", st.specs[si].fields[fi].name)]
    ELSE Then(readScalar(st.r, prop.valueKind), LAMBDA x : StoreScalar(st, x, si, fi, ri))

\* the column reader bound to field fi of descriptor si, run on row ri
BoundColumn(st, prop, si, fi, ri) ==
    IF list_kind(st.specs[si].fields[fi]) # UNUSED
    THEN BoundList(st, prop, si, fi, ri)
    ELSE BoundScalar(st, prop, si, fi, ri)

NoBinding == <<0, 0>>

\* variant of BindFields that leaves a field whose property the element
\* does not declare unbound instead of failing
RECURSIVE BindFields_SkipMissing(_, _, _, _, _)
BindFields_SkipMissing(elem, spec, si, fi, b) ==
    IF fi > Len(spec.fields) THEN [bind |-> b, err |-> NoErr]
    ELSE LET it == FindProperty(elem.properties, spec.fields[fi].name)
         IN  IF it # 0
             THEN BindFields_SkipMissing(elem, spec, si, fi + 1, [b EXCEPT ![it] = <<si, fi>>])
             ELSE BindFields_SkipMissing(elem, spec, si, fi + 1, b)

\* variant of BindFields that binds field fi to the fi-th column of the
\* element (declared position) instead of the column carrying its name
RECURSIVE BindFields_ByPosition(_, _, _, _, _)
BindFields_ByPosition(elem, spec, si, fi, b) ==
    IF fi > Len(spec.fields) THEN [bind |-> b, err |-> NoErr]
    ELSE LET it == IF FindProperty(elem.properties, spec.fields[fi].name) = 0 THEN 0
                   ELSE IF fi <= Len(elem.properties) THEN fi ELSE Len(elem.properties)
         IN  IF it # 0
             THEN BindFields_ByPosition(elem, spec, si, fi + 1, [b EXCEPT ![it] = <<si, fi>>])
             ELSE [bind |-> b,
                   err |-> Err("MissingProperty", elem.name, spec.fields[fi].name)]

\* the fold over the fields of descriptor si: columnReaders[pi] is replaced
\* by the reader bound to field fi
RECURSIVE BindFields(_, _, _, _, _)
BindFields(elem, spec, si, fi, b) ==
    IF fi > Len(spec.fields) THEN [bind |-> b, err |-> NoErr]
    ELSE LET it == FindProperty(elem.properties, spec.fields[fi].name)
         IN  IF it # 0
             THEN BindFields(elem, spec, si, fi + 1, [b EXCEPT ![it] = <<si, fi>>])
             ELSE [bind |-> b,
                   err |-> Err("MissingProperty", elem.name, spec.fields[fi].name)]

\* variant of the fold that binds every descriptor to every element,
\* whatever its element name
RECURSIVE BindSpecs_AnyName(_, _, _, _)
BindSpecs_AnyName(st, elem, si, b) ==
    IF si > Len(st.specs) THEN [st |-> st, bind |-> b]
    ELSE Then(resize(st.specs[si], elem.count),
              LAMBDA rs :
                 IF rs.err # NoErr THEN [st |-> [st EXCEPT !.err = rs.err], bind |-> b]
                 ELSE Then(BindFields(elem, rs.spec, si, 1, b),
                           LAMBDA bf :
                              IF bf.err # NoErr
                              THEN [st |-> [st EXCEPT !.specs[si] = rs.spec, !.err = bf.err],
                                    bind |-> bf.bind]
                              ELSE BindSpecs_AnyName([st EXCEPT !.specs[si] = rs.spec],
                                                     elem, si + 1, bf.bind)))

\* the fold over the descriptors: resize, then bind the fields
RECURSIVE BindSpecs(_, _, _, _)
BindSpecs(st, elem, si, b) ==
    IF si > Len(st.specs) THEN [st |-> st, bind |-> b]
    ELSE IF st.specs[si].element # elem.name THEN BindSpecs(st, elem, si + 1, b)
    ELSE Then(resize(st.specs[si], elem.count),
              LAMBDA rs :
                 IF rs.err # NoErr THEN [st |-> [st EXCEPT !.err = rs.err], bind |-> b]
                 ELSE Then(BindFields(elem, rs.spec, si, 1, b),
                           LAMBDA bf :
                              IF bf.err # NoErr
                              THEN [st |-> [st EXCEPT !.specs[si] = rs.spec, !.err = bf.err],
                                    bind |-> bf.bind]
                              ELSE BindSpecs([st EXCEPT !.specs[si] = rs.spec],
                                             elem, si + 1, bf.bind)))

\* columnReaders[pi](ri): the bound reader, or the default one
ColumnReader(st, elem, b, ri, pi) ==
    IF b[pi] = NoBinding THEN SkipColumn(st, elem.properties[pi])
    ELSE BoundColumn(st, elem.properties[pi], b[pi][1], b[pi][2], ri)

\* for (auto& rd : columnReaders) rd(ri); an exception ends the loop
RECURSIVE ReadRow(_, _, _, _, _)
ReadRow(st, elem, b, ri, pi) ==
    IF st.err # NoErr \/ pi > Len(elem.properties) THEN st
    ELSE Then(ColumnReader(st, elem, b, ri, pi),
              LAMBDA st1 : ReadRow(st1, elem, b, ri, pi + 1))

\* for (ri = 0; ri < elem.count; ++ri)
RECURSIVE ReadRows(_, _, _, _)
ReadRows(st, elem, b, ri) ==
    IF st.err # NoErr \/ ri > elem.count THEN st
    ELSE Then(ReadRow(st, elem, b, ri, 1),
              LAMBDA st1 : ReadRows(st1, elem, b, ri + 1))

\* the body of the loop over reader.getElements() for one element
ReadElement(st, elem) ==
    IF elem.count = 0 THEN st
    ELSE Then(BindSpecs(st, elem, 1, [pi \in 1..Len(elem.properties) |-> NoBinding]),
              LAMBDA bs : ReadRows(bs.st, elem, bs.bind, 1))

RECURSIVE ReadElements(_, _, _)
ReadElements(st, elements, ei) ==
    IF st.err # NoErr \/ ei > Len(elements) THEN st
    ELSE Then(ReadElement(st, elements[ei]),
              LAMBDA st1 : ReadElements(st1, elements, ei + 1))

\* bind_reader(reader, specs...)
bind_reader(r, specs) ==
    IF check_property_conflicts(specs)
    THEN [r |-> r, specs |-> specs, err |-> Err("PropertyConflict", "", "")]
    ELSE Then(parseHeader(r),
              LAMBDA hdr :
                 IF hdr.err # NoErr THEN [r |-> hdr.r, specs |-> specs, err |-> hdr.err]
                 ELSE ReadElements([r |-> hdr.r, specs |-> specs, err |-> NoErr],
                                   hdr.r.elements, 1))

(***************************************************************************)
(* Bounds and input catalogues                                             *)
(***************************************************************************)
MaxOps == 3

MaxRows == 2

MaxListLen == 3

Formats == {"BINARY", "ASCII"}

\* descriptor types (the static part of a PropertySpec instantiation)
SpecType(element, fields) == [element |-> element, fields |-> fields]

VX == SpecType("vertex", <<Field("x", "uint8_t", "scalar", 0)>>)

VY == SpecType("vertex", <<Field("y", "int8_t", "scalar", 0)>>)

VXY == SpecType("vertex", <<Field("x", "uint16_t", "scalar", 0),
                            Field("y", "uint8_t", "scalar", 0)>>)

FV == SpecType("face", <<Field("idx", "uint16_t", "vector", 0)>>)

FA(cap) == SpecType("face", <<Field("idx", "uint8_t", "array", cap)>>)

\* deterministic row contents: the value stored at item k of field fi of
\* row ri, cast to the field's type
ItemValue(f, ri, fi, k, seed) ==
    static_cast(get_scalar_kind(f.type), 97 + 50 * seed + 16 * ri + 4 * fi + k)

VecLen(ri, seed) == (ri + seed) % (MaxListLen + 1)

FieldValue(f, ri, fi, seed) ==
    CASE f.shape = "vector" -> [k \in 1..VecLen(ri, seed) |-> ItemValue(f, ri, fi, k, seed)]
      [] f.shape = "array" -> [k \in 1..f.cap |-> ItemValue(f, ri, fi, k, seed)]
      [] OTHER -> <<ItemValue(f, ri, fi, 0, seed)>>

MakeRows(type, n, seed) ==
    [ri \in 1..n |-> [fi \in 1..Len(type.fields) |-> FieldValue(type.fields[fi], ri, fi, seed)]]

\* a descriptor of the given type over a container of n generated rows
D(type, owning, n, seed) == Spec(type.element, type.fields, owning, MakeRows(type, n, seed))

(***************************************************************************)
(* SpecW: any sequence of at most MaxOps operations on one writer handle   *)
(***************************************************************************)
Comments == {"made by turboply", ""}

WElements ==
    { Element("vertex", 1, <<Property("x", UINT8, UNUSED)>>),
      Element("face", 2, <<Property("idx", UINT16, UINT8)>>),
      Element("edge", 12, <<Property("a", UNUSED, UNUSED), Property("b", FLOAT64, UINT32)>>) }

WScalars == { PlyScalar(UINT8, 7), PlyScalar(INT16, 0 - 2) }

WListsW ==
    { <<D(VX, FALSE, 1, 0)>>, <<D(FA(2), FALSE, 1, 0)>>, <<D(VX, FALSE, 1, 0), D(VXY, FALSE, 1, 0)>> }
    \cup { <<D(VX, FALSE, n1, 0), D(VY, FALSE, n2, 0)>> : n1 \in 1..MaxRows, n2 \in 1..MaxRows }
    \cup { <<D(VX, FALSE, n1, 0), D(FV, FALSE, 1, 1), D(VY, FALSE, n2, 0)>> :
              n1 \in (MaxRows - 1)..MaxRows, n2 \in (MaxRows - 1)..MaxRows }
    \cup { <<D(FV, FALSE, MaxRows, 1), D(VXY, FALSE, MaxRows, 0)>>,
           <<D(SpecType("vertex", <<Field("z", "int16_t", "scalar", 0)>>), FALSE, MaxRows, 1),
             D(FA(2), FALSE, 1, 0), D(VXY, FALSE, MaxRows, 0)>>,
           <<D(SpecType("vertex", <<Field("c", "char", "scalar", 0)>>), FALSE, MaxRows, 0),
             D(FV, FALSE, 1, 1), D(VX, FALSE, MaxRows, 1)>> }

EmptyFile == [elements |-> <<>>, data |-> <<>>]

Done(op, err, calls) == [op |-> op, err |-> err, calls |-> calls]

InitW ==
    /\ writer \in {NewWriter(f) : f \in Formats}
    /\ reader = NewReader(<<>>, "BINARY")
    /\ file = EmptyFile
    /\ wspecs = <<>>
    /\ rspecs = <<>>
    /\ result = Done("init", NoErr, <<>>)
    /\ steps = 0

AddComment(c) ==
    /\ steps < MaxOps
    /\ writer' = addComment(writer, c).w
    /\ result' = Done("addComment", NoErr, <<"addComment">>)
    /\ steps' = steps + 1
    /\ UNCHANGED <<reader, file, wspecs, rspecs>>

AddElement(e) ==
    /\ steps < MaxOps
    /\ LET a == addElement(writer, e)
       IN  /\ writer' = a.w
           /\ result' = Done("addElement", a.err, <<"addElement">>)
    /\ steps' = steps + 1
    /\ UNCHANGED <<reader, file, wspecs, rspecs>>

WriteHeader ==
    /\ steps < MaxOps
    /\ LET h == writeHeader(writer)
       IN  /\ writer' = h.w
           /\ result' = Done("writeHeader", h.err, <<"writeHeader">>)
    /\ steps' = steps + 1
    /\ UNCHANGED <<reader, file, wspecs, rspecs>>

WriteScalar(v) ==
    /\ steps < MaxOps
    /\ writer' = writeScalar(writer, v)
    /\ result' = Done("writeScalar", NoErr, <<"writeScalar">>)
    /\ steps' = steps + 1
    /\ UNCHANGED <<reader, file, wspecs, rspecs>>

WriteScalarAs(v, k) ==
    /\ steps < MaxOps
    /\ LET x == writeScalarAs(writer, v, k)
       IN  /\ writer' = x.w
           /\ result' = Done("writeScalar", x.err, <<"writeScalar">>)
    /\ steps' = steps + 1
    /\ UNCHANGED <<reader, file, wspecs, rspecs>>

WriteLineEnd ==
    /\ steps < MaxOps
    /\ writer' = writeLineEnd(writer)
    /\ result' = Done("writeLineEnd", NoErr, <<"writeLineEnd">>)
    /\ steps' = steps + 1
    /\ UNCHANGED <<reader, file, wspecs, rspecs>>

BindWriter(specs) ==
    /\ steps < MaxOps
    /\ \E b \in {bind_writer(writer, specs)} :
           /\ writer' = b.w
           /\ result' = Done("bind_writer", b.err, b.calls)
    /\ wspecs' = specs
    /\ steps' = steps + 1
    /\ UNCHANGED <<reader, file, rspecs>>

NextW ==
    \/ \E c \in Comments : AddComment(c)
    \/ \E e \in WElements : AddElement(e)
    \/ WriteHeader
    \/ \E v \in WScalars : WriteScalar(v)
    \/ \E v \in WScalars : \E k \in {UINT8, UNUSED} : WriteScalarAs(v, k)
    \/ WriteLineEnd
    \/ \E specs \in WListsW : BindWriter(specs)

SpecW == InitW /\ [][NextW]_vars

(***************************************************************************)
(* SpecR: a reader handle opened on a well-formed binary file, and a list  *)
(* of descriptors over caller containers.  A file is                       *)
(*   [elements, data]  with data[ei][ri][pi] the values of property pi in  *)
(* row ri of element ei (one value for a scalar property, the list items   *)
(* for a list property).                                                   *)
(***************************************************************************)
MaxCap == 2

\* on-disk schemas
PX == Property("x", UINT8, UNUSED)

PY == Property("y", INT8, UNUSED)

PZ == Property("z", UINT16, UNUSED)

PExtra == Property("extra", UINT16, UINT8)

PXList == Property("x", UINT8, UINT8)

PIdx == Property("idx", UINT16, UINT8)

PIdxScalar == Property("idx", UINT16, UNUSED)

FileDocs ==
    UNION {
       { <<Element("vertex", n, <<PX, PExtra, PY>>)>>,
         <<Element("vertex", n, <<PX, PZ>>)>>,
         <<Element("vertex", n, <<PXList, PY>>)>>,
         <<Element("face", n, <<PIdx>>)>>,
         <<Element("face", n, <<PIdxScalar>>)>>,
         <<Element("vertex", n, <<PY, PX>>), Element("face", MaxRows, <<PIdx, PZ>>)>>,
         <<Element("vertex", MaxRows, <<PX, PY>>), Element("vertex", n, <<PX, PY>>)>> }
       : n \in 0..MaxRows }

\* deterministic file contents (values 1..100, list lengths 0..MaxListLen)
FileValue(ei, ri, pi, k, seed) == 1 + ((37 * ei + 16 * ri + 4 * pi + k + seed) % 100)

FileLen(ri, seed) == (ri + seed) % (MaxListLen + 1)

FileData(elements, seed) ==
    [ei \in 1..Len(elements) |->
      [ri \in 1..elements[ei].count |->
        [pi \in 1..Len(elements[ei].properties) |->
            IF elements[ei].properties[pi].listKind # UNUSED
            THEN [k \in 1..FileLen(ri, seed) |-> FileValue(ei, ri, pi, k, seed)]
            ELSE <<FileValue(ei, ri, pi, 0, seed)>>]]]

MakeFile(elements, seed) == [elements |-> elements, data |-> FileData(elements, seed)]

Files == {MakeFile(doc, seed) : doc \in FileDocs, seed \in 0..MaxListLen}

Bytes(k, x) == LET bs == ToBytes(k, x) IN [i \in 1..Len(bs) |-> ByteCell(bs[i])]

RECURSIVE ItemsBytes(_, _, _)
ItemsBytes(k, items, i) ==
    IF i > Len(items) THEN <<>> ELSE Bytes(k, items[i]) \o ItemsBytes(k, items, i + 1)

\* binary body of one property value: <listKind count><valueKind value>*count
PropertyBytes(p, items) ==
    IF p.listKind # UNUSED
    THEN Bytes(p.listKind, Len(items)) \o ItemsBytes(p.valueKind, items, 1)
    ELSE Bytes(p.valueKind, items[1])

RECURSIVE RowBytes(_, _, _)
RowBytes(e, row, pi) ==
    IF pi > Len(e.properties) THEN <<>>
    ELSE PropertyBytes(e.properties[pi], row[pi]) \o RowBytes(e, row, pi + 1)

RECURSIVE ElementBytes(_, _, _)
ElementBytes(e, rows, ri) ==
    IF ri > Len(rows) THEN <<>>
    ELSE RowBytes(e, rows[ri], 1) \o ElementBytes(e, rows, ri + 1)

RECURSIVE BodyBytes(_, _)
BodyBytes(f, ei) ==
    IF ei > Len(f.elements) THEN <<>>
    ELSE ElementBytes(f.elements[ei], f.data[ei], 1) \o BodyBytes(f, ei + 1)

\* the cells of a binary-little-endian file: header text, then row-major,
\* element-major fixed-width values
FileCells(f) ==
    HeaderLines([NewWriter("BINARY") EXCEPT !.elements = f.elements]) \o BodyBytes(f, 1)

\* reader-side descriptor types
RVX == SpecType("vertex", <<Field("x", "uint8_t", "scalar", 0)>>)

RVY == SpecType("vertex", <<Field("y", "int8_t", "scalar", 0)>>)

RVYX == SpecType("vertex", <<Field("y", "int16_t", "scalar", 0),
                             Field("x", "uint16_t", "scalar", 0)>>)

RVXL == SpecType("vertex", <<Field("x", "uint8_t", "vector", 0)>>)

RFV == SpecType("face", <<Field("idx", "uint16_t", "vector", 0)>>)

RFA(cap) == SpecType("face", <<Field("idx", "uint16_t", "array", cap)>>)

RE == SpecType("edge", <<Field("v1", "uint8_t", "scalar", 0)>>)

RTypeLists ==
    { <<RVX>>, <<RVY, RVX>>, <<RVYX>>, <<RVXL>>, <<RFV>>, <<RVYX, RFV>>, <<RE, RVX>> }
    \cup { <<RFA(c)>> : c \in 1..MaxCap }
    \cup { <<RFA(c), RVY>> : c \in 1..MaxCap }

\* containers start with n0 rows of values that occur in no file
JunkSeed == 2

RLists ==
    { [i \in 1..Len(tl) |-> D(tl[i], own, n0, JunkSeed)] :
        tl \in RTypeLists, own \in BOOLEAN, n0 \in 0..MaxRows }

InitR ==
    /\ file \in Files
    /\ reader = NewReader(FileCells(file), "BINARY")
    /\ rspecs \in RLists
    /\ writer = NewWriter("BINARY")
    /\ wspecs = <<>>
    /\ result = Done("init", NoErr, <<>>)
    /\ steps = 0

ParseHeader ==
    /\ steps < MaxOps
    /\ LET h == parseHeader(reader)
       IN  /\ reader' = h.r
           /\ result' = Done("parseHeader", h.err, <<"parseHeader">>)
    /\ steps' = steps + 1
    /\ UNCHANGED <<writer, file, wspecs, rspecs>>

GetElements ==
    /\ steps < MaxOps
    /\ LET g == getElements(reader)
       IN  /\ reader' = g.r
           /\ result' = Done("getElements", g.err, <<"parseHeader">>)
    /\ steps' = steps + 1
    /\ UNCHANGED <<writer, file, wspecs, rspecs>>

GetComments ==
    /\ steps < MaxOps
    /\ LET g == getComments(reader)
       IN  /\ reader' = g.r
           /\ result' = Done("getComments", g.err, <<"parseHeader">>)
    /\ steps' = steps + 1
    /\ UNCHANGED <<writer, file, wspecs, rspecs>>

BindReader ==
    /\ steps < MaxOps
    /\ \E b \in {bind_reader(reader, rspecs)} :
           /\ reader' = b.r
           /\ rspecs' = b.specs
           /\ result' = Done("bind_reader", b.err, <<"parseHeader">>)
    /\ steps' = steps + 1
    /\ UNCHANGED <<writer, file, wspecs>>

NextR ==
    \/ ParseHeader
    \/ GetElements
    \/ GetComments
    \/ BindReader

SpecR == InitR /\ [][NextR]_vars

(***************************************************************************)
(* SpecRT: rows written by bind_writer under binary encoding (one document *)
(* per writer: bind_writer is not called again once the header is out), a  *)
(* reader constructed over the produced bytes, and bind_reader on it.      *)
(***************************************************************************)
\* the smallest capacity whose size does not fit the list-length kind of a
\* fixed-capacity list
WideCap == 2 ^ (8 * sizeofKind(list_kind(Field("idx", "uint8_t", "array", 1))))

VC == SpecType("vertex", <<Field("c", "char", "scalar", 0)>>)

\* source descriptor lists: conflict-free ones with equal row counts,
\* and lists with a conflicting pair at every pair of positions
WListsRT ==
    { <<D(VXY, own, n, 0)>> : own \in BOOLEAN, n \in 0..MaxRows }
    \cup { <<D(FV, TRUE, n, 1)>> : n \in 1..MaxRows }
    \cup { <<D(FA(c), TRUE, n, 0)>> : c \in 1..MaxCap, n \in 1..MaxRows }
    \cup { <<D(VX, FALSE, n, 0), D(FV, TRUE, 1, 1), D(VY, FALSE, n, 1)>> : n \in 1..MaxRows }
    \cup { <<D(FA(WideCap), TRUE, 1, 0)>>, <<D(VC, TRUE, MaxRows, 0)>> }
    \cup { <<D(VX, TRUE, 1, 0), D(VXY, TRUE, 1, 0)>>,
           <<D(VX, TRUE, 1, 0), D(FV, TRUE, 1, 0), D(VXY, TRUE, 1, 0)>>,
           <<D(FV, TRUE, 1, 0), D(VX, TRUE, 1, 0), D(VXY, TRUE, 1, 0)>>,
           <<D(VX, TRUE, 1, 0), D(VXY, TRUE, 1, 0), D(FV, TRUE, 1, 0)>> }

\* descriptors of the same types over fresh (empty) owning containers
Fresh(specs) == [i \in 1..Len(specs) |-> Spec(specs[i].element, specs[i].fields, TRUE, <<>>)]

\* reader descriptor lists: the types that were written, or a list with a
\* conflicting pair
RListsRT(written) ==
    { Fresh(written) }
    \cup { <<D(RVX, TRUE, 0, 0), D(RVYX, TRUE, 0, 0)>>,
           <<D(RFV, TRUE, 0, 0), D(RVX, TRUE, 0, 0), D(RVYX, TRUE, 0, 0)>>,
           <<D(RVX, TRUE, 0, 0), D(RFV, TRUE, 0, 0), D(RVYX, FALSE, 1, 0)>> }

InitRT ==
    /\ writer = NewWriter("BINARY")
    /\ reader = NewReader(<<>>, "BINARY")
    /\ file = EmptyFile
    /\ wspecs = <<>>
    /\ rspecs = <<>>
    /\ result = Done("init", NoErr, <<>>)
    /\ steps = 0

\* PlyStreamReader constructed over the bytes the writer's stream holds
OpenReader(specs) ==
    /\ steps < MaxOps
    /\ reader' = NewReader(writer.os, "BINARY")
    /\ rspecs' = specs
    /\ result' = Done("open", NoErr, <<>>)
    /\ steps' = steps + 1
    /\ UNCHANGED <<writer, file, wspecs>>

NextRT ==
    \/ \E specs \in WListsRT : ~writer.has_header /\ BindWriter(specs)
    \/ \E specs \in RListsRT(wspecs) : OpenReader(specs)
    \/ BindReader

SpecRT == InitRT /\ [][NextRT]_vars

(***************************************************************************)
(* Properties of the writer handle (SpecW)                                 *)
(***************************************************************************)
Range(seq) == {seq[i] : i \in 1..Len(seq)}

\* two distinct descriptors with the same element name share a property name
PairConflict(specs) ==
    \E i \in 1..Len(specs) : \E j \in 1..Len(specs) :
        /\ i # j
        /\ specs[i].element = specs[j].element
        /\ {specs[i].fields[a].name : a \in 1..Len(specs[i].fields)}
             \cap {specs[j].fields[b].name : b \in 1..Len(specs[j].fields)} # {}

RowCountsDisagree(specs) ==
    \E i \in 1..Len(specs) : \E j \in 1..Len(specs) :
        specs[i].element = specs[j].element /\ Len(specs[i].rows) # Len(specs[j].rows)

\* number of times the header text occurs in an output stream
HeaderCount(os) ==
    Cardinality({i \in 1..Len(os) : os[i].t = "line" /\ os[i].toks = <<"ply">>})

\* C7: a bind_writer call whose descriptors share an element name but
\* disagree on the row count fails with ElementCountMismatch, and it fails
\* before any writer operation is reached: no element registered, no header
\* emitted, no byte written (the writer handle is left exactly as it was).
C7_CountMismatchBeforeRegistration ==
    [][ ( /\ steps' = steps + 1
          /\ result'.op = "bind_writer"
          /\ ~PairConflict(wspecs')
          /\ RowCountsDisagree(wspecs') )
        => ( /\ result'.err.kind = "ElementCountMismatch"
             /\ result'.calls = <<>>
             /\ writer' = writer ) ]_vars

C7_Witness ==
    /\ result.op = "bind_writer"
    /\ Len(wspecs) = 3
    /\ RowCountsDisagree(wspecs)
    /\ result.err.kind = "ElementCountMismatch"
    /\ writer.elements = <<>>
    /\ writer.os = <<>>

\* C8: the header text is in the output at most once; a writeHeader reached
\* (directly or inside bind_writer) on a handle whose header is already
\* written fails with HeaderAlreadyWritten and leaves the stream unchanged;
\* the first writeHeader succeeds, marks the header written and, on a stream
\* that has not failed, emits the header text.
C8_HeaderEmittedAtMostOnce ==
    /\ [](HeaderCount(writer.os) <= 1)
    /\ [][ ( /\ steps' = steps + 1
             /\ "writeHeader" \in Range(result'.calls)
             /\ writer.has_header )
           => ( /\ result'.err.kind = "HeaderAlreadyWritten"
                /\ writer'.os = writer.os
                /\ writer'.has_header ) ]_vars
    /\ [][ ( /\ steps' = steps + 1
             /\ "writeHeader" \in Range(result'.calls)
             /\ ~writer.has_header )
           => ( /\ result'.err = NoErr
                /\ writer'.has_header
                /\ HeaderCount(writer.os) = 0
                /\ (writer.good => HeaderCount(writer'.os) = 1) ) ]_vars

C8_Witness ==
    /\ result.op = "bind_writer"
    /\ result.err.kind = "HeaderAlreadyWritten"
    /\ HeaderCount(writer.os) = 1

\* C9 (as claimed): while the header has not been emitted on a writer
\* handle, the output stream holds no scalar value and no line terminator.
C9_NoRowDataBeforeHeader ==
    ~writer.has_header =>
        \A i \in 1..Len(writer.os) : writer.os[i].t \notin {"byte", "tok", "sp", "nl"}

\* C10 (as claimed): once the header of a handle is finalized, no operation
\* changes the element list of the handle's document.
C10_ElementsFrozenAfterHeader ==
    [][ /\ (writer.has_header => writer'.elements = writer.elements)
        /\ (reader.has_header => reader'.elements = reader.elements) ]_vars

(***************************************************************************)
(* Properties of bind_reader (SpecR)                                       *)
(***************************************************************************)
BindReaderStep == steps' = steps + 1 /\ result'.op = "bind_reader"

\* the elements of a file that bind_reader visits (nonzero row count)
Live(f) == {e \in 1..Len(f.elements) : f.elements[e].count # 0}

NamedLike(specs, f, s, e) == specs[s].element = f.elements[e].name

Declares(f, e, n) == \E p \in 1..Len(f.elements[e].properties) : f.elements[e].properties[p].name = n

\* descriptor s names, in field fi, a property that element e does not declare
MissingField(specs, f, s, fi, e) ==
    NamedLike(specs, f, s, e) /\ ~Declares(f, e, specs[s].fields[fi].name)

MissingIn(specs, f, e) ==
    \E s \in 1..Len(specs) : \E fi \in 1..Len(specs[s].fields) : MissingField(specs, f, s, fi, e)

\* field fi of descriptor s and the same-named property of element e
\* disagree on being a list
ListnessField(specs, f, s, fi, e) ==
    /\ NamedLike(specs, f, s, e)
    /\ \E p \in 1..Len(f.elements[e].properties) :
          /\ f.elements[e].properties[p].name = specs[s].fields[fi].name
          /\ (specs[s].fields[fi].shape = "scalar") # (f.elements[e].properties[p].listKind = UNUSED)

ListnessIn(specs, f, e) ==
    \E s \in 1..Len(specs) : \E fi \in 1..Len(specs[s].fields) : ListnessField(specs, f, s, fi, e)

\* a borrowing view bound to element e whose size is not e's row count
ViewMismatchIn(specs, f, e) ==
    \E s \in 1..Len(specs) :
        NamedLike(specs, f, s, e) /\ ~specs[s].owning /\ Len(specs[s].rows) # f.elements[e].count

\* nothing in element e makes bind_reader fail
Clean(specs, f, e) ==
    e \notin Live(f) \/ ~(MissingIn(specs, f, e) \/ ListnessIn(specs, f, e) \/ ViewMismatchIn(specs, f, e))

CleanBefore(specs, f, e) == \A e2 \in 1..(e - 1) : Clean(specs, f, e2)

\* the content of field fi in row ri of descriptor s before a resize to a
\* larger container filled it with a value-initialised row
FieldOrDefault(spec, ri, fi) ==
    IF ri <= Len(spec.rows) THEN spec.rows[ri][fi] ELSE DefaultField(spec.fields[fi])

\* C3 (amended): bind_reader never returns successfully when a bound
\* descriptor names a property that a same-named element of the file with
\* nonzero row count does not declare; the error is MissingProperty, naming
\* that element and such a property, unless a failure is detected first
\* (in an earlier element of the file, or the size check of a borrowing
\* view bound to the same element); and a MissingProperty error always
\* names an element and a property of that kind.
C3_MissingPropertyFails ==
    [][ BindReaderStep =>
          /\ \A e \in Live(file) :
                MissingIn(rspecs, file, e) =>
                  /\ result'.err # NoErr
                  /\ (CleanBefore(rspecs, file, e) /\ ~ViewMismatchIn(rspecs, file, e)) =>
                        /\ result'.err.kind = "MissingProperty"
                        /\ result'.err.elem = file.elements[e].name
                        /\ \E s \in 1..Len(rspecs) : \E fi \in 1..Len(rspecs[s].fields) :
                              /\ MissingField(rspecs, file, s, fi, e)
                              /\ rspecs[s].fields[fi].name = result'.err.prop
          /\ result'.err.kind = "MissingProperty" =>
                \E e \in Live(file) : \E s \in 1..Len(rspecs) : \E fi \in 1..Len(rspecs[s].fields) :
                    /\ MissingField(rspecs, file, s, fi, e)
                    /\ file.elements[e].name = result'.err.elem
                    /\ rspecs[s].fields[fi].name = result'.err.prop ]_vars

C3_Witness ==
    /\ result.op = "bind_reader"
    /\ result.err = Err("MissingProperty", "vertex", "y")
    /\ \E e \in Live(file) : MissingIn(rspecs, file, e)

\* C3 (as claimed): whenever a bound descriptor names a property that the
\* file's element of the same name does not declare (and nothing else is
\* wrong with the binding), bind_reader fails with MissingProperty.
C3_Original ==
    [][ ( /\ BindReaderStep
          /\ \E e \in 1..Len(file.elements) : MissingIn(rspecs, file, e)
          /\ \A e \in 1..Len(file.elements) :
                ~ListnessIn(rspecs, file, e) /\ ~ViewMismatchIn(rspecs, file, e) )
        => result'.err.kind = "MissingProperty" ]_vars

\* C4 (amended): when a bound field and the same-named property of a
\* same-named element with nonzero row count disagree on being a list,
\* bind_reader never returns successfully; the error is TypeMismatch naming
\* such a property unless a failure is detected first (in an earlier
\* element, or a MissingProperty / ElementCountMismatch while the readers of
\* this element are set up); and no value of the property is ever stored
\* into the field.
C4_TypeMismatchFails ==
    [][ BindReaderStep =>
          /\ \A e \in Live(file) :
                ListnessIn(rspecs, file, e) =>
                  /\ result'.err # NoErr
                  /\ ( /\ CleanBefore(rspecs, file, e)
                       /\ ~ViewMismatchIn(rspecs, file, e)
                       /\ ~MissingIn(rspecs, file, e) ) =>
                        /\ result'.err.kind = "TypeMismatch"
                        /\ \E s \in 1..Len(rspecs) : \E fi \in 1..Len(rspecs[s].fields) :
                              /\ ListnessField(rspecs, file, s, fi, e)
                              /\ rspecs[s].fields[fi].name = result'.err.prop
          /\ \A s \in 1..Len(rspecs) : \A fi \in 1..Len(rspecs[s].fields) :
                ( /\ \E e \in 1..Len(file.elements) : ListnessField(rspecs, file, s, fi, e)
                  /\ \A e \in 1..Len(file.elements) :
                        NamedLike(rspecs, file, s, e) => ListnessField(rspecs, file, s, fi, e) )
                => \A ri \in 1..Len(rspecs'[s].rows) :
                      rspecs'[s].rows[ri][fi] = FieldOrDefault(rspecs[s], ri, fi) ]_vars

C4_Witness ==
    /\ result.op = "bind_reader"
    /\ result.err.kind = "TypeMismatch"
    /\ \E e \in Live(file) : ListnessIn(rspecs, file, e)
    /\ reader.log # <<>>

\* C4 (as claimed): whenever a bound field and the on-disk property of the
\* same name disagree on being a list (and nothing else is wrong with the
\* binding), bind_reader fails with TypeMismatch.
C4_Original ==
    [][ ( /\ BindReaderStep
          /\ \E e \in 1..Len(file.elements) : ListnessIn(rspecs, file, e)
          /\ \A e \in 1..Len(file.elements) :
                ~MissingIn(rspecs, file, e) /\ ~ViewMismatchIn(rspecs, file, e) )
        => result'.err.kind = "TypeMismatch" ]_vars

\* the kinds a reader must consume, in order, to step over the whole body
RECURSIVE ExpectedRow(_, _, _)
ExpectedRow(e, row, pi) ==
    IF pi > Len(e.properties) THEN <<>>
    ELSE (IF e.properties[pi].listKind # UNUSED
          THEN <<e.properties[pi].listKind>>
                 \o [k \in 1..Len(row[pi]) |-> e.properties[pi].valueKind]
          ELSE <<e.properties[pi].valueKind>>) \o ExpectedRow(e, row, pi + 1)

RECURSIVE ExpectedElement(_, _, _)
ExpectedElement(e, rows, ri) ==
    IF ri > Len(rows) THEN <<>>
    ELSE ExpectedRow(e, rows[ri], 1) \o ExpectedElement(e, rows, ri + 1)

RECURSIVE ExpectedLog(_, _)
ExpectedLog(f, ei) ==
    IF ei > Len(f.elements) THEN <<>>
    ELSE ExpectedElement(f.elements[ei], f.data[ei], 1) \o ExpectedLog(f, ei + 1)

UniqueName(f, e) ==
    \A e2 \in 1..Len(f.elements) : f.elements[e2].name = f.elements[e].name => e2 = e

\* C5: a successful bind_reader that starts at the first body byte leaves,
\* for every row and every bound list field whose on-disk list has length
\* L: in a fixed-capacity destination of capacity C the first min(L, C)
\* on-disk values in entries 0..min(L,C)-1 and the other entries untouched;
\* in an open-ended destination exactly the L on-disk values in order.  The
\* values beyond the capacity are consumed: the call reads the length and
\* all L values of every list and ends at the end of the body.  A list
\* longer than the capacity raises no error: the call succeeds whenever the
\* descriptors fit the file (no missing property, no list/scalar
\* disagreement, no borrowing view of the wrong size).
C5_ListTruncation ==
    [][ /\ ( /\ BindReaderStep
             /\ reader.log = <<>>
             /\ ~PairConflict(rspecs)
             /\ \A e \in 1..Len(file.elements) : Clean(rspecs, file, e) )
           => result'.err = NoErr
        /\ (BindReaderStep /\ reader.log = <<>> /\ result'.err = NoErr) =>
          /\ reader'.log = ExpectedLog(file, 1)
          /\ reader'.pos = Len(reader.is)
          /\ reader'.good
          /\ \A s \in 1..Len(rspecs) : \A fi \in 1..Len(rspecs[s].fields) :
             \A e \in Live(file) : \A p \in 1..Len(file.elements[e].properties) :
                ( /\ NamedLike(rspecs, file, s, e)
                  /\ UniqueName(file, e)
                  /\ rspecs[s].fields[fi].shape # "scalar"
                  /\ file.elements[e].properties[p].name = rspecs[s].fields[fi].name )
                => \A ri \in 1..file.elements[e].count :
                     LET disk == file.data[e][ri][p]
                         old == FieldOrDefault(rspecs[s], ri, fi)
                         new == rspecs'[s].rows[ri][fi]
                     IN  IF rspecs[s].fields[fi].shape = "array"
                         THEN /\ Len(new) = rspecs[s].fields[fi].cap
                              /\ \A k \in 1..Len(new) :
                                    new[k] = IF k <= Len(disk) THEN disk[k] ELSE old[k]
                         ELSE new = disk ]_vars

C5_Witness ==
    /\ result.op = "bind_reader"
    /\ result.err = NoErr
    /\ reader.pos = Len(reader.is)
    /\ \E s \in 1..Len(rspecs) : \E e \in Live(file) : \E ri \in 1..Len(rspecs[s].rows) :
          /\ NamedLike(rspecs, file, s, e)
          /\ rspecs[s].fields[1].shape = "array"
          /\ ri < file.elements[e].count
          /\ Len(file.data[e][ri][1]) > rspecs[s].fields[1].cap
          /\ rspecs[s].rows[ri][1] = SubSeq(file.data[e][ri][1], 1, rspecs[s].fields[1].cap)

\* the last element of the file named like descriptor s among those with a
\* nonzero row count (0 when there is none)
LastLive(specs, f, s) ==
    LET E == {e \in Live(f) : NamedLike(specs, f, s, e)}
    IN  IF E = {} THEN 0 ELSE CHOOSE e \in E : \A e2 \in E : e2 <= e

\* C6 (amended): when bind_reader returns successfully, every bound
\* container whose element name is carried by an element of the file with
\* nonzero row count has exactly the row count declared by (the last such)
\* element; a borrowing view is never resized, and one whose size differs
\* from the row count of a same-named element with nonzero row count makes
\* bind_reader fail - with ElementCountMismatch unless a failure is
\* detected first.
C6_ContainerSizes ==
    [][ BindReaderStep =>
          /\ result'.err = NoErr =>
                \A s \in 1..Len(rspecs) :
                    LastLive(rspecs, file, s) # 0 =>
                        Len(rspecs'[s].rows) = file.elements[LastLive(rspecs, file, s)].count
          /\ \A s \in 1..Len(rspecs) :
                ~rspecs[s].owning => Len(rspecs'[s].rows) = Len(rspecs[s].rows)
          /\ \A e \in Live(file) :
                ViewMismatchIn(rspecs, file, e) =>
                  /\ result'.err # NoErr
                  /\ (CleanBefore(rspecs, file, e) /\ ~MissingIn(rspecs, file, e)) =>
                        result'.err = Err("ElementCountMismatch", file.elements[e].name, "") ]_vars

C6_Witness ==
    /\ result.op = "bind_reader"
    /\ result.err = NoErr
    /\ \E s \in 1..Len(rspecs) :
          /\ rspecs[s].owning
          /\ LastLive(rspecs, file, s) # 0
          /\ Len(rspecs[s].rows) = file.elements[LastLive(rspecs, file, s)].count
          /\ Len(rspecs[s].rows) # Len(D(RVX, TRUE, MaxRows, JunkSeed).rows)

\* C6 (as claimed): when bind_reader returns successfully, every bound
\* container whose element name appears in the file has the row count
\* declared by an element of that name.
C6_Original ==
    [][ (BindReaderStep /\ result'.err = NoErr) =>
          \A s \in 1..Len(rspecs) :
              (\E e \in 1..Len(file.elements) : NamedLike(rspecs, file, s, e))
              => \E e \in 1..Len(file.elements) :
                    /\ NamedLike(rspecs, file, s, e)
                    /\ Len(rspecs'[s].rows) = file.elements[e].count ]_vars

(***************************************************************************)
(* Properties of the round trip and of conflict checking (SpecRT)          *)
(***************************************************************************)
SameTypes(a, b) ==
    /\ Len(a) = Len(b)
    /\ \A i \in 1..Len(a) : a[i].element = b[i].element /\ a[i].fields = b[i].fields

\* the reader was constructed over the complete output of the bind_writer
\* call that wrote wspecs, and has consumed nothing yet
ReadsBackWritten ==
    /\ result.op = "open"
    /\ writer.has_header
    /\ reader.is = writer.os
    /\ reader.pos = 0
    /\ ~reader.has_header

\* C1: for every conflict-free list of descriptors and every row content,
\* writing the rows with bind_writer under binary encoding and reading the
\* produced bytes back with bind_reader, using descriptors of the same types
\* on owning containers, succeeds and yields containers equal to the source
\* in every field of every row.
C1_BinaryRoundTrip ==
    [][ ( /\ BindReaderStep
          /\ ReadsBackWritten
          /\ ~PairConflict(wspecs)
          /\ SameTypes(rspecs, wspecs)
          /\ \A i \in 1..Len(rspecs) : rspecs[i].owning )
        => /\ result'.err = NoErr
           /\ \A i \in 1..Len(rspecs) : rspecs'[i].rows = wspecs[i].rows ]_vars

\* C2: bind_writer and bind_reader reject a descriptor list exactly when two
\* distinct descriptors in it, at any two positions, have the same element
\* name and share a property name; a rejected call leaves the handle and the
\* containers exactly as they were (no header parsed or emitted, no byte
\* read or written, no writer operation reached), whatever the stream holds.
C2_ConflictRejectedBeforeIO ==
    [][ /\ (steps' = steps + 1 /\ result'.op = "bind_writer") =>
              /\ (result'.err.kind = "PropertyConflict") = PairConflict(wspecs')
              /\ PairConflict(wspecs') =>
                    /\ writer' = writer
                    /\ result'.calls = <<>>
        /\ BindReaderStep =>
              /\ (result'.err.kind = "PropertyConflict") = PairConflict(rspecs)
              /\ PairConflict(rspecs) =>
                    /\ reader' = reader
                    /\ rspecs' = rspecs ]_vars

C2_Witness ==
    /\ result.op = "bind_reader"
    /\ result.err.kind = "PropertyConflict"
    /\ Len(rspecs) = 3
    /\ ~PairConflict(SubSeq(rspecs, 1, 2))
    /\ Len(reader.is) > 0
    /\ reader.pos = 0
    /\ ~reader.has_header

(***************************************************************************)
(* Properties of the element list of a writer (SpecW)                      *)
(***************************************************************************)
\* C11: the element names registered on a writer are pairwise distinct in
\* every reachable state; an addElement whose name is already registered
\* fails with DuplicateElement naming it and leaves the element list (and
\* the rest of the handle: no header, no byte emitted by the call)
\* unchanged; an addElement with a new name appends the element.
C11_ElementNamesDistinct ==
    /\ [](\A i \in 1..Len(writer.elements) : \A j \in 1..Len(writer.elements) :
            writer.elements[i].name = writer.elements[j].name => i = j)
    /\ [][ \A e \in WElements :
            (steps' = steps + 1 /\ result'.op = "addElement" /\ AddElement(e)) =>
               IF \E i \in 1..Len(writer.elements) : writer.elements[i].name = e.name
               THEN /\ result'.err = Err("DuplicateElement", e.name, "")
                    /\ writer' = writer
               ELSE /\ result'.err = NoErr
                    /\ writer'.elements = Append(writer.elements, e)
                    /\ writer'.os = writer.os ]_vars

C11_Witness ==
    /\ result.op = "addElement"
    /\ result.err.kind = "DuplicateElement"
    /\ Len(writer.elements) = 1
    /\ ~writer.has_header
    /\ writer.os = <<>>

(***************************************************************************)
(* SpecH: a PlyStreamReader over hand-written streams (complete headers    *)
(* with comments and both spellings of the kind tokens, headers that stop  *)
(* before end_header, property lines with other kind tokens, ASCII bodies  *)
(* of well-formed and malformed tokens), driven through parseHeader,       *)
(* getElements, getComments and readScalar.                                *)
(***************************************************************************)
HComment(c) == LineCell(<<"comment", c>>, <<>>)

HElement(name, n) == LineCell(<<"element", name>>, ToDigits(n))

HScalar(vt, name) == LineCell(<<"property", vt, name>>, <<>>)

HList(lt, vt, name) == LineCell(<<"property", "list", lt, vt, name>>, <<>>)

HEnd == LineCell(<<"end_header">>, <<>>)

\* the lines between the format line and the body
HeaderTails ==
    { <<HComment("a"), HElement("vertex", 2), HScalar("uchar", "x"),
        HList("uchar", "ushort", "idx"), HComment("b"), HEnd>>,
      <<HElement("vertex", 1), HScalar("uint8", "x"), HScalar("float32", "w"),
        HElement("face", 0), HList("uint8", "int32", "idx"), HEnd>>,
      <<HComment("a"), HEnd>>,
      <<HEnd>>,
      <<LineCell(<<"obj_info", "z">>, <<>>), HElement("vertex", 1), HScalar("char", "x"), HEnd>>,
      \* stop before end_header
      <<>>,
      <<HComment("a")>>,
      <<HElement("vertex", 1)>>,
      <<HElement("vertex", 1), HScalar("uchar", "x")>>,
      <<HElement("vertex", 1), HScalar("uchar", "x"), HList("uchar", "ushort", "idx")>>,
      \* kind tokens outside the sixteen spellings
      <<HElement("vertex", 1), HScalar("unused", "x"), HEnd>>,
      <<HElement("vertex", 1), HList("uchar", "unused", "x"), HEnd>>,
      <<HElement("vertex", 1), HList("unused", "uchar", "x"), HEnd>>,
      <<HElement("vertex", 1), HScalar("int64", "x"), HEnd>>,
      <<HElement("vertex", 1), HList("int64", "uchar", "x"), HEnd>>,
      <<HElement("vertex", 1), HList("uchar", "Float", "x"), HEnd>>,
      <<HElement("vertex", 1), LineCell(<<"property", "list", "uchar", "ushort">>, <<>>), HEnd>>,
      <<HElement("vertex", 1), LineCell(<<"property">>, <<>>), HEnd>>,
      \* other malformed headers
      <<HScalar("uchar", "x"), HEnd>>,
      <<LineCell(<<"comment">>, <<>>), HEnd>> }

HeaderTexts(format) ==
    { <<LineCell(<<"ply">>, <<>>), LineCell(formatHeader(format), <<>>)>> \o t : t \in HeaderTails }
    \cup { <<LineCell(<<"plx">>, <<>>), LineCell(formatHeader(format), <<>>), HEnd>>,
           <<LineCell(<<"ply">>, <<>>), LineCell(<<"format", "binary_big_endian", "1.0">>, <<>>), HEnd>>,
           <<LineCell(<<"ply">>, <<>>)>>,
           <<>> }

EndsHeader(lines) == lines # <<>> /\ lines[Len(lines)] = HEnd

\* text tokens of an ASCII body
AsciiTokens ==
    { <<"7">>, <<"-", "5">>, <<"0", "0", "7">>, <<"3", "0", "0">>, <<"-", "1", "2", "9">>,
      <<"1", "2", "a", "b", "c">>, <<"3", ".", "5">>, <<"7", "e", "2">>, <<"-", "4", "-">>,
      <<"a", "b", "c">>, <<"-">>, <<"+", "7">>, <<".", "5">>, <<"-", "x">> }

Bodies(format) ==
    IF isBinary(format)
    THEN { <<>>, <<ByteCell(7)>>, <<ByteCell(200), ByteCell(1), ByteCell(10)>> }
    ELSE { <<>> }
         \cup { <<TokCell(t), NewlineCell>> : t \in AsciiTokens }
         \cup { <<SpaceCell, TokCell(t), SpaceCell, TokCell(<<"9">>), NewlineCell>> : t \in AsciiTokens }

\* a stream: header lines, and a body when the header is complete
Stream(format, header, body) == [format |-> format, header |-> header, body |-> body]

Streams ==
    UNION { { Stream(f, h, b) : b \in (IF EndsHeader(h) THEN Bodies(f) ELSE {<<>>}) }
            : f \in Formats, h \in HeaderTexts("BINARY") \cup HeaderTexts("ASCII") }

Returned(op, err, value) == [op |-> op, err |-> err, calls |-> <<>>, value |-> value]

InitH ==
    /\ file \in Streams
    /\ reader = NewReader(file.header \o file.body, file.format)
    /\ rspecs = <<>>
    /\ writer = NewWriter("BINARY")
    /\ wspecs = <<>>
    /\ result = Done("init", NoErr, <<>>)
    /\ steps = 0

\* the integer kinds a caller asks readScalar for, and the sentinel
ReadKinds == {UNUSED, INT8, UINT8, INT16, UINT16, INT32}

\* reader.readScalar(k) by a caller that has the header behind it
ReadScalar(k) ==
    /\ steps < MaxOps
    /\ reader.has_header
    /\ \E s \in {readScalar(reader, k)} :
           /\ reader' = s.r
           /\ result' = Returned("readScalar", s.err, s.v)
    /\ steps' = steps + 1
    /\ UNCHANGED <<writer, file, wspecs, rspecs>>

NextH ==
    \/ ParseHeader
    \/ GetElements
    \/ GetComments
    \/ \E k \in ReadKinds : ReadScalar(k)

SpecH == InitH /\ [][NextH]_vars

(***************************************************************************)
(* Properties of the header parser (SpecH)                                 *)
(***************************************************************************)
\* a parseHeader, getElements or getComments call
HeaderCallStep ==
    steps' = steps + 1 /\ result'.op \in {"parseHeader", "getElements", "getComments"}

\* C12: once a parseHeader has returned without error (the header is marked
\* parsed), every further parseHeader, getElements or getComments call
\* succeeds and leaves the handle as it was: the same comments, the same
\* elements, the same read position, no byte consumed; until the first
\* readScalar the read position is the first byte of the body.
C12_ParseHeaderIdempotent ==
    /\ [][ (HeaderCallStep /\ reader.has_header) =>
              /\ result'.err = NoErr
              /\ reader'.comments = reader.comments
              /\ reader'.elements = reader.elements
              /\ reader'.pos = reader.pos
              /\ reader' = reader ]_vars
    /\ [](reader.has_header /\ EndsHeader(file.header) /\ reader.log = <<>>
             => reader.pos = Len(file.header))

C12_Witness ==
    /\ steps = 2
    /\ result.op = "getElements"
    /\ reader.has_header
    /\ EndsHeader(file.header)
    /\ Len(reader.comments) = 2
    /\ Len(reader.elements) = 1
    /\ file.body # <<>>
    /\ reader.pos = Len(file.header)

\* no line of the stream is an end_header line
NoEndHeader(f) == \A i \in 1..Len(f.header) : ~starts_with(f.header[i].toks, <<"end_header">>)

\* C13: a parseHeader (direct, or on demand from getElements/getComments)
\* over an input that is exhausted before an end_header line is read fails
\* with an error and does not mark the header as parsed.
C13_TruncatedHeaderFails ==
    [][ (HeaderCallStep /\ ~reader.has_header /\ NoEndHeader(file)) =>
           /\ result'.err # NoErr
           /\ ~reader'.has_header ]_vars

\* the sixteen spellings of the eight numeric kinds
NumericSpellings ==
    UNION { {scalarKindNames[k + 1][1], scalarKindNames[k + 1][2]} : k \in NumericKinds }

\* a property line one of whose kind tokens is not a numeric spelling
BadKindLine(toks) ==
    /\ TokenAt(toks, 1) = "property"
    /\ IF TokenAt(toks, 2) = "list"
       THEN TokenAt(toks, 3) \notin NumericSpellings \/ TokenAt(toks, 4) \notin NumericSpellings
       ELSE TokenAt(toks, 2) \notin NumericSpellings

\* line i of the header is read by the parser: it comes before the first
\* end_header line
BeforeEnd(f, i) ==
    i <= Len(f.header) /\ \A j \in 1..i : ~starts_with(f.header[j].toks, <<"end_header">>)

\* C14: parsing a header that holds (before end_header) a property line
\* whose value-kind or length-kind token is not one of the sixteen
\* spellings fails with an error and does not mark the header parsed; so in
\* every state each parsed property has a numeric value kind, and a list
\* kind that is numeric or absent.
C14_UnknownKindRejected ==
    /\ [][ (HeaderCallStep /\ ~reader.has_header /\ reader.pos = 0
              /\ \E i \in 3..Len(file.header) : BeforeEnd(file, i) /\ BadKindLine(file.header[i].toks))
           => (result'.err # NoErr /\ ~reader'.has_header) ]_vars
    /\ [](\A e \in 1..Len(reader.elements) : \A p \in 1..Len(reader.elements[e].properties) :
            /\ reader.elements[e].properties[p].valueKind \in NumericKinds
            /\ reader.elements[e].properties[p].listKind \in NumericKinds \cup {UNUSED})

(***************************************************************************)
(* Properties of the ASCII value parser (SpecH)                            *)
(***************************************************************************)
\* the text token the next ASCII readScalar extracts, <<>> when the stream
\* has none left
NextToken(r) ==
    LET p == r.pos + SkipWs(r.is, r.pos)
    IN  IF p + 1 <= Len(r.is) /\ r.is[p + 1].t = "tok" THEN r.is[p + 1].toks ELSE <<>>

\* cs, all of it, is a decimal literal: an optional minus sign, then one or
\* more digits and nothing else
IsIntegerLiteral(cs) ==
    LET start == IF cs # <<>> /\ cs[1] = "-" THEN 2 ELSE 1
    IN  /\ start <= Len(cs)
        /\ \A i \in start..Len(cs) : IsDigitChar(cs[i])

LiteralValue(cs) ==
    LET start == IF cs[1] = "-" THEN 2 ELSE 1
        mag == FromDigits([i \in 1..(Len(cs) - start + 1) |-> DigitVal(cs[start + i - 1])])
    IN  IF cs[1] = "-" THEN 0 - mag ELSE mag

\* cs is a literal of a value that the integer kind k can hold
ValidLiteral(k, cs) ==
    /\ IsIntegerLiteral(cs)
    /\ static_cast(k, LiteralValue(cs)) = LiteralValue(cs)
    /\ (cs[1] = "-" => isSigned(k))

\* C17: an ASCII readScalar of an integer kind that extracts a token returns
\* the token's value when the whole token is a valid literal of the kind,
\* and fails with the parse error otherwise (non-numeric text, a value out
\* of the kind's range, trailing characters after a numeric prefix, text
\* with a decimal point).
C17_AsciiWholeTokenParsed ==
    [][ \A k \in ReadKinds \cap NumericKinds :
          (/\ steps' = steps + 1
           /\ result'.op = "readScalar"
           /\ ~isBinary(reader.format)
           /\ reader.good
           /\ NextToken(reader) # <<>>
           /\ reader'.log = Append(reader.log, k))
          => IF ValidLiteral(k, NextToken(reader))
             THEN result'.err = NoErr /\ result'.value = PlyScalar(k, LiteralValue(NextToken(reader)))
             ELSE result'.err.kind = "ParseValue" ]_vars

(***************************************************************************)
(* SpecD: detectPlyFormat over files on disk.  A file is a sequence of     *)
(* characters; the files of the catalogue place the two declarations at    *)
(* the start, in the middle, ending exactly at the last byte the function  *)
(* reads, straddling that byte, and beyond it.                             *)
(***************************************************************************)
\* the number of bytes detectPlyFormat reads
N == 1024

\* the needles "format ascii" and "format binary_little_endian"
FormatAscii == <<"f", "o", "r", "m", "a", "t", " ", "a", "s", "c", "i", "i">>

FormatBinLE ==
    <<"f", "o", "r", "m", "a", "t", " ", "b", "i", "n", "a", "r", "y", "_", "l", "i", "t",
      "t", "l", "e", "_", "e", "n", "d", "i", "a", "n">>

\* std::string::find(needle) != npos
Found(header, needle) ==
    \E i \in 1..(Len(header) - Len(needle) + 1) :
        SubSeq(header, i, i + Len(needle) - 1) = needle

\* ifs.read(header.data(), N); header.resize(ifs.gcount())
ReadPrefix(content) == SubSeq(content, 1, IF Len(content) < N THEN Len(content) ELSE N)

\* variant of detectPlyFormat that lets the ASCII declaration win
detectPlyFormat_AsciiWins(f) ==
    IF ~f.exists THEN [err |-> Err("OpenError", "", ""), value |-> ""]
    ELSE IF Found(ReadPrefix(f.content), FormatAscii) THEN [err |-> NoErr, value |-> "ASCII"]
    ELSE IF Found(ReadPrefix(f.content), FormatBinLE) THEN [err |-> NoErr, value |-> "BINARY"]
    ELSE [err |-> Err("FormatDetect", "", ""), value |-> ""]

detectPlyFormat(f) ==
    IF ~f.exists THEN [err |-> Err("OpenError", "", ""), value |-> ""]
    ELSE LET header == ReadPrefix(f.content)
             found_ascii == Found(header, FormatAscii)
             found_bin_le == Found(header, FormatBinLE)
         IN  IF found_ascii /\ ~found_bin_le THEN [err |-> NoErr, value |-> "ASCII"]
             ELSE IF found_bin_le /\ ~found_ascii THEN [err |-> NoErr, value |-> "BINARY"]
             ELSE [err |-> Err("FormatDetect", "", ""), value |-> ""]

\* a file of len characters: filler, with the ASCII declaration starting
\* after apos characters and the binary one after bpos (-1: absent)
DiskFile(len, apos, bpos) ==
    [exists |-> TRUE,
     content |-> [i \in 1..len |->
                    IF apos >= 0 /\ i - apos \in 1..Len(FormatAscii) THEN FormatAscii[i - apos]
                    ELSE IF bpos >= 0 /\ i - bpos \in 1..Len(FormatBinLE) THEN FormatBinLE[i - bpos]
                    ELSE "."]]

DiskFiles ==
    { DiskFile(len, apos, bpos) :
        len \in {0, Len(FormatAscii), N, N + Len(FormatBinLE)},
        apos \in {-1, 0, 4, 100, N - Len(FormatAscii), N - Len(FormatAscii) + 1, N + 2},
        bpos \in {-1, 0, 12, 60, N - Len(FormatBinLE), N - Len(FormatBinLE) + 1, N} }
    \cup { [exists |-> FALSE, content |-> <<>>] }

InitD ==
    /\ file \in DiskFiles
    /\ reader = NewReader(<<>>, "BINARY")
    /\ rspecs = <<>>
    /\ writer = NewWriter("BINARY")
    /\ wspecs = <<>>
    /\ result = Done("init", NoErr, <<>>)
    /\ steps = 0

DetectPlyFormat ==
    /\ steps < MaxOps
    /\ \E d \in {detectPlyFormat(file)} :
           result' = Returned("detectPlyFormat", d.err, d.value)
    /\ steps' = steps + 1
    /\ UNCHANGED <<writer, reader, file, wspecs, rspecs>>

NextD == DetectPlyFormat

SpecD == InitD /\ [][NextD]_vars

\* the declaration lies wholly within the first N bytes of the file
Declared(f, needle) ==
    \E p \in 0..(N - Len(needle)) :
        /\ p + Len(needle) <= Len(f.content)
        /\ \A j \in 1..Len(needle) : f.content[p + j] = needle[j]

\* C15: on a file that can be opened, detectPlyFormat returns ASCII exactly
\* when the first 1024 bytes contain "format ascii" and not
\* "format binary_little_endian", BINARY exactly when they contain the
\* binary declaration and not the ASCII one, and fails with the format
\* detection error when they contain both or neither, wherever the
\* declarations stand in those bytes.
C15_DetectFormat ==
    [][ (steps' = steps + 1 /\ result'.op = "detectPlyFormat" /\ file.exists) =>
          LET a == Declared(file, FormatAscii)
              b == Declared(file, FormatBinLE)
          IN  /\ (result'.err = NoErr /\ result'.value = "ASCII") <=> (a /\ ~b)
              /\ (result'.err = NoErr /\ result'.value = "BINARY") <=> (b /\ ~a)
              /\ (result'.err.kind = "FormatDetect") <=> (a = b)
              /\ result'.err.kind \in {"none", "FormatDetect"} ]_vars

\* both declarations within the bytes read, the binary one first
C15_Witness ==
    /\ result.op = "detectPlyFormat"
    /\ result.err.kind = "FormatDetect"
    /\ Declared(file, FormatAscii)
    /\ Declared(file, FormatBinLE)
    /\ file.content[1] = "."

(***************************************************************************)
(* SpecM: a memory-mapped writer.  The file is reserved and mapped when    *)
(* the handle is opened, written through an ostream over mapped_file_buf   *)
(* (write, seekp), and truncated when the handle is closed.  hwm is a      *)
(* history field: the furthest offset a write has reached.                 *)
(***************************************************************************)
MaxReserve == 3

\* mapped_file_buf(filename, read_only = false, reserve_size) on a new file,
\* and the ostream over it: the file is resized to reserve_size and mapped,
\* the put area is the whole region, the cursor at its start
\* block = 0: offsets and sizes of the buffer count bytes.
mapped_file_buf(reserve_size) ==
    [open |-> TRUE, good |-> TRUE, size |-> reserve_size,
     region |-> [i \in 1..reserve_size |-> 0], pptr |-> 0, hwm |-> 0, block |-> 0]

\* width of int, the parameter type of std::streambuf::pbump
IntBits == 32

\* a reservation of gigabytes is counted in blocks of 2^BlockBits bytes:
\* offsets, sizes and the cells of the region are whole blocks
BlockBits == 28

large_file_buf(reserve_blocks) == [mapped_file_buf(reserve_blocks) EXCEPT !.block = BlockBits]

\* INT_MAX + 1 in the offset unit of a block-counted buffer
IntHalf == 2 ^ (IntBits - 1 - BlockBits)

\* static_cast<int>(d) of a pointer difference d: the value modulo
\* 2^IntBits in [-2^(IntBits-1), 2^(IntBits-1)).  Every byte offset of a
\* byte-counted buffer of this model is far inside that range.
int_cast(m, d) ==
    IF m.block = 0 THEN d
    ELSE ((d + IntHalf) % (2 * IntHalf)) - IntHalf

epptr(m) == Len(m.region)

\* variant of xsputn that advances the cursor by the whole request
xsputn_Unbounded(m, bs) ==
    [m |-> [m EXCEPT !.region = [i \in 1..Len(@) |->
                                    IF i - m.pptr \in 1..Len(bs) THEN bs[i - m.pptr] ELSE @[i]],
                     !.pptr = @ + Len(bs),
                     !.hwm = IF m.pptr + Len(bs) > @ THEN m.pptr + Len(bs) ELSE @],
     n |-> Len(bs)]

\* std::streambuf::xsputn on the put area (overflow is not overridden): the
\* characters that fit are stored, the count stored is returned
xsputn(m, bs) ==
    LET n == IF Len(bs) <= epptr(m) - m.pptr THEN Len(bs) ELSE epptr(m) - m.pptr
    IN  [m |-> [m EXCEPT !.region = [i \in 1..Len(@) |->
                                        IF i - m.pptr \in 1..n THEN bs[i - m.pptr] ELSE @[i]],
                         !.pptr = @ + n,
                         !.hwm = IF n > 0 /\ m.pptr + n > @ THEN m.pptr + n ELSE @],
         n |-> n]

\* std::ostream::write: nothing on a failed stream; badbit on a short write
ostream_write(m, bs) ==
    IF ~m.good THEN m
    ELSE LET x == xsputn(m, bs)
         IN  [x.m EXCEPT !.good = (x.n = Len(bs))]

\* mapped_file_buf::seekoff(off, dir, out): the new offset, -1 when the
\* target lies outside the region
seekoff(m, off, dir) ==
    LET target == CASE dir = "beg" -> off
                    [] dir = "cur" -> m.pptr + off
                    [] dir = "end" -> epptr(m) + off
    IN  IF target >= 0 /\ target <= epptr(m)
        THEN \* setp(pbase(), epptr()); pbump(static_cast<int>(target - pptr()))
             [m |-> [m EXCEPT !.pptr = 0 + int_cast(m, target - 0)], pos |-> target]
        ELSE [m |-> m, pos |-> -1]

\* std::ostream::seekp(off, dir): nothing on a failed stream; failbit when
\* the buffer refuses
ostream_seekp(m, off, dir) ==
    IF ~m.good THEN m
    ELSE LET s == seekoff(m, off, dir)
         IN  IF s.pos = -1 THEN [m EXCEPT !.good = FALSE] ELSE s.m

\* PlyFileHandler::close -> ~mapped_file_buf: unmap, then resize the file to
\* pptr() - pbase().  With the cursor below pbase() the length converted to
\* size_t is beyond any file size: resize_file throws inside the
\* destructor and the file keeps its reserved size.
close(m) ==
    IF m.pptr < 0 THEN [m EXCEPT !.open = FALSE]
    ELSE [m EXCEPT !.open = FALSE, !.size = m.pptr]

InitM ==
    /\ file \in {mapped_file_buf(r) : r \in 1..MaxReserve}
                 \cup {large_file_buf(r) : r \in IntHalf..(IntHalf + 1)}
    /\ reader = NewReader(<<>>, "BINARY")
    /\ rspecs = <<>>
    /\ writer = NewWriter("BINARY")
    /\ wspecs = <<>>
    /\ result = Done("init", NoErr, <<>>)
    /\ steps = 0

\* the byte strings handed to write
MappedWrites == {<<1>>, <<2, 3>>, <<4, 5, 6>>}

SeekDirs == {"beg", "cur", "end"}

\* os.write(bs).  A write with the cursor below pbase() stores outside the
\* mapping: the process dies there, or the store lands in foreign memory
\* and the call returns.
MappedWrite(bs) ==
    /\ steps < MaxOps
    /\ file.open
    /\ \/ file' = ostream_write(file, bs)
       \/ file.good /\ file.pptr < 0 /\ file' = [file EXCEPT !.open = FALSE]
    /\ result' = Done("write", NoErr, <<>>)
    /\ steps' = steps + 1
    /\ UNCHANGED <<writer, reader, wspecs, rspecs>>

\* the offsets handed to seekp, in the unit of the buffer
SeekOffsets(m) ==
    IF m.block = 0 THEN (0 - MaxReserve)..MaxReserve
    ELSE {0 - 1, 0, 1, IntHalf - 1, IntHalf, IntHalf + 1}

MappedSeek(off, dir) ==
    /\ steps < MaxOps
    /\ file.open
    /\ off \in SeekOffsets(file)
    /\ file' = ostream_seekp(file, off, dir)
    /\ result' = Returned("seekp", NoErr,
                          [off |-> off, dir |-> dir,
                           pos |-> IF file.good THEN seekoff(file, off, dir).pos ELSE 0 - 1])
    /\ steps' = steps + 1
    /\ UNCHANGED <<writer, reader, wspecs, rspecs>>

MappedClose ==
    /\ file.open
    /\ file' = close(file)
    /\ result' = Done("close", NoErr, <<>>)
    /\ steps' = steps + 1
    /\ UNCHANGED <<writer, reader, wspecs, rspecs>>

NextM ==
    \/ \E bs \in MappedWrites : MappedWrite(bs)
    \/ \E off \in (0 - MaxReserve)..MaxReserve \cup (0 - 1)..(IntHalf + 1) :
          \E dir \in SeekDirs : MappedSeek(off, dir)
    \/ MappedClose

SpecM == InitM /\ [][NextM]_vars

Received(fld, disk, old) ==
    IF fld.shape = "array"
    THEN [k \in 1..fld.cap |->
            IF k <= Len(disk) THEN static_cast(get_scalar_kind(fld.type), disk[k]) ELSE old[k]]
    ELSE [k \in 1..Len(disk) |-> static_cast(get_scalar_kind(fld.type), disk[k])]

\* C18: a successful bind_reader that starts at the first body byte consumes
\* the scalars element by element, row by row and, within a row, in the
\* order the properties are declared in the file header, whatever the order
\* of the descriptors in the argument list and of the fields inside a
\* descriptor; and every bound field holds, in every row, the value of the
\* on-disk property that carries its name.
C18_HeaderOrderConsumption ==
    [][ (BindReaderStep /\ reader.log = <<>> /\ result'.err = NoErr) =>
          /\ reader'.log = ExpectedLog(file, 1)
          /\ \A s \in 1..Len(rspecs) : \A fi \in 1..Len(rspecs[s].fields) :
                LET e == LastLive(rspecs, file, s)
                IN  e # 0 =>
                      LET p == FindProperty(file.elements[e].properties, rspecs[s].fields[fi].name)
                      IN  /\ p # 0
                          /\ Len(rspecs'[s].rows) = file.elements[e].count
                          /\ \A ri \in 1..file.elements[e].count :
                                rspecs'[s].rows[ri][fi] =
                                    Received(rspecs[s].fields[fi], file.data[e][ri][p],
                                             FieldOrDefault(rspecs[s], ri, fi)) ]_vars

\* descriptors in the order (y, x) read from an element declared (x, ..., y)
C18_Witness ==
    /\ result.op = "bind_reader"
    /\ result.err = NoErr
    /\ Len(rspecs) = 2
    /\ rspecs[1].fields[1].name = "y"
    /\ rspecs[2].fields[1].name = "x"
    /\ Len(file.elements) = 1
    /\ file.elements[1].properties[1].name = "x"
    /\ file.elements[1].count = MaxRows
    /\ rspecs[1].rows[MaxRows][1] = file.data[1][MaxRows][3]
    /\ rspecs[2].rows[MaxRows][1] = file.data[1][MaxRows][1]
    /\ rspecs[1].rows[MaxRows][1] # rspecs[2].rows[MaxRows][1]

\* C19: the scalars a successful bind_reader consumes do not depend on the
\* descriptors: starting at the first body byte it issues exactly the reads
\* (number and kinds, in order) that a bind_reader with no descriptor at
\* all issues - per row one value for each scalar property and one length
\* plus length-many values for each list property, bound or not, whatever
\* the capacity of the destination - and ends at the same stream position,
\* the end of the body.
C19_ConsumptionIndependentOfBinding ==
    [][ (BindReaderStep /\ reader.log = <<>> /\ result'.err = NoErr) =>
          LET unbound == bind_reader(reader, <<>>)
          IN  /\ unbound.err = NoErr
              /\ reader'.log = unbound.r.log
              /\ reader'.pos = unbound.r.pos
              /\ reader'.good = unbound.r.good
              /\ unbound.r.log = ExpectedLog(file, 1)
              /\ unbound.r.pos = Len(reader.is) ]_vars

\* two elements, a bound list longer than its fixed-capacity destination,
\* and unbound properties in both elements
C19_Witness ==
    /\ result.op = "bind_reader"
    /\ result.err = NoErr
    /\ Len(file.elements) = 2
    /\ reader.log = ExpectedLog(file, 1)
    /\ \E s \in 1..Len(rspecs) :
          /\ rspecs[s].element = "face"
          /\ rspecs[s].fields[1].shape = "array"
          /\ \E ri \in 1..file.elements[2].count :
                Len(file.data[2][ri][1]) > rspecs[s].fields[1].cap
    /\ \E s \in 1..Len(rspecs) : rspecs[s].element = "vertex"
    /\ file.elements[1].count > 0

(***************************************************************************)
(* Order of the body written by bind_writer (SpecW)                        *)
(***************************************************************************)
\* the names of the fields of the descriptors of element n, descriptors in
\* argument order, fields in declared order
RECURSIVE DeclaredNames(_, _, _)
DeclaredNames(specs, n, si) ==
    IF si > Len(specs) THEN <<>>
    ELSE (IF specs[si].element = n
          THEN [fi \in 1..Len(specs[si].fields) |-> specs[si].fields[fi].name]
          ELSE <<>>) \o DeclaredNames(specs, n, si + 1)

HasDescriptor(specs, n) == \E s \in 1..Len(specs) : specs[s].element = n

\* the cells one field value occupies in a stream of the given format
FieldCells(format, fld, val) == WriteField(NewWriter(format), fld, val).os

\* the cells of row ri of header element e: for each property of the header,
\* in header order, the value of the descriptor field that carries its name
RECURSIVE HeaderRowCells(_, _, _, _, _)
HeaderRowCells(format, specs, e, ri, pi) ==
    IF pi > Len(e.properties) THEN <<>>
    ELSE LET sf == CHOOSE sf \in UNION { {<<s, fi>> : fi \in 1..Len(specs[s].fields)} :
                                           s \in 1..Len(specs) } :
                      /\ specs[sf[1]].element = e.name
                      /\ specs[sf[1]].fields[sf[2]].name = e.properties[pi].name
         IN  FieldCells(format, specs[sf[1]].fields[sf[2]], specs[sf[1]].rows[ri][sf[2]])
                \o HeaderRowCells(format, specs, e, ri, pi + 1)

\* a row and its line end
RowLine(format, cells) ==
    IF isBinary(format) \/ cells = <<>> THEN cells
    ELSE [cells EXCEPT ![Len(cells)] = NewlineCell]

RECURSIVE HeaderRowsCells(_, _, _, _)
HeaderRowsCells(format, specs, e, ri) ==
    IF ri > e.count THEN <<>>
    ELSE RowLine(format, HeaderRowCells(format, specs, e, ri, 1))
            \o HeaderRowsCells(format, specs, e, ri + 1)

\* the body the header announces: the row blocks of the header's elements
\* that have descriptors, in header order
RECURSIVE HeaderBodyCells(_, _, _, _)
HeaderBodyCells(format, specs, elements, ei) ==
    IF ei > Len(elements) THEN <<>>
    ELSE (IF HasDescriptor(specs, elements[ei].name)
          THEN HeaderRowsCells(format, specs, elements[ei], 1)
          ELSE <<>>) \o HeaderBodyCells(format, specs, elements, ei + 1)

\* C20: a successful bind_writer on a good stream appends the header and
\* then a body in which the row blocks of the elements stand in the order
\* the header declares the elements and, in every row, the field values
\* stand in the order the header declares the properties; the header
\* declares, for each element with descriptors, the fields of its
\* descriptors in argument order, each descriptor's fields in declared
\* order - also when descriptors of different elements are interleaved.
C20_BodyFollowsHeaderOrder ==
    [][ (steps' = steps + 1 /\ result'.op = "bind_writer" /\ result'.err = NoErr /\ writer.good) =>
          /\ \A e \in 1..Len(writer'.elements) :
                HasDescriptor(wspecs', writer'.elements[e].name) =>
                   [p \in 1..Len(writer'.elements[e].properties) |->
                        writer'.elements[e].properties[p].name]
                     = DeclaredNames(wspecs', writer'.elements[e].name, 1)
          /\ writer'.os = writer.os \o HeaderLines(writer')
                            \o HeaderBodyCells(writer'.format, wspecs', writer'.elements, 1) ]_vars

\* interleaved descriptors (vertex, face, vertex) with rows written
C20_Witness ==
    /\ result.op = "bind_writer"
    /\ result.err = NoErr
    /\ Len(wspecs) = 3
    /\ wspecs[1].element = "vertex"
    /\ wspecs[2].element = "face"
    /\ wspecs[3].element = "vertex"
    /\ Len(wspecs[3].fields) = 2
    /\ Len(wspecs[1].rows) = MaxRows
    /\ Len(writer.elements) = 2
    /\ writer.elements[1].name = "vertex"
    /\ Len(writer.elements[1].properties) = 3
    /\ writer.os = HeaderLines(writer) \o HeaderBodyCells(writer.format, wspecs, writer.elements, 1)

(***************************************************************************)
(* Properties of seeking in the memory-mapped write buffer (SpecM)         *)
(***************************************************************************)
\* the offset a seek (off, dir) aims at
SeekTarget(m, off, dir) ==
    CASE dir = "beg" -> off
      [] dir = "cur" -> m.pptr + off
      [] dir = "end" -> epptr(m) + off

\* C21: on the memory-mapped write buffer a seek whose target offset lies
\* in [0, reserved size] returns that offset and leaves the write cursor
\* exactly there; a seek whose target lies outside fails (returns -1) and
\* leaves the write cursor where it was; neither changes the bounds of the
\* buffer.
C21_SeekWithinReservation ==
    [][ (file.open /\ file.good /\ file.pptr >= 0 /\ steps' = steps + 1 /\ result'.op = "seekp") =>
          LET target == SeekTarget(file, result'.value.off, result'.value.dir)
          IN  /\ epptr(file') = epptr(file)
              /\ IF target >= 0 /\ target <= epptr(file)
                 THEN result'.value.pos = target /\ file'.pptr = target
                 ELSE result'.value.pos = 0 - 1 /\ file'.pptr = file.pptr ]_vars

(***************************************************************************)
(* Header round trip                                                       *)
(***************************************************************************)
\* a step in which the writer's header is emitted, by writeHeader itself or
\* by the writeHeader call inside bind_writer, on an output stream that has
\* not failed (a failed stream stores no text at all)
HeaderEmitted == ~writer.has_header /\ writer'.has_header /\ writer.good

\* the cells the step appended to the output stream
Emitted == SubSeq(writer'.os, Len(writer.os) + 1, Len(writer'.os))

\* a reader of the writer's encoding opened on the emitted text, after parseHeader
Reparsed == parseHeader(NewReader(Emitted, writer'.format))

\* C22: the header emitted by writeHeader on a working output stream, parsed
\* by parseHeader of the same encoding, yields the writer's comments in order and the writer's elements
\* in order, each with its name, row count and ordered properties (name,
\* value kind, list kind).
C22_HeaderRoundTrip ==
    [][ HeaderEmitted =>
          /\ Reparsed.err = NoErr
          /\ Reparsed.r.has_header
          /\ Reparsed.r.comments = writer'.comments
          /\ Reparsed.r.elements = writer'.elements ]_vars

\* a header with a comment and an element carrying a list property whose
\* length kind differs from its value kind has been written and parses back
C22_Witness ==
    /\ result.op = "writeHeader"
    /\ result.err = NoErr
    /\ writer.comments # <<>>
    /\ \E i \in 1..Len(writer.elements) :
          \E j \in 1..Len(writer.elements[i].properties) :
             LET p == writer.elements[i].properties[j]
             IN  p.listKind # UNUSED /\ p.listKind # p.valueKind
    /\ LET r == parseHeader(NewReader(writer.os, writer.format))
       IN  r.err = NoErr /\ r.r.elements = writer.elements /\ r.r.comments = writer.comments

(***************************************************************************)
(* List length prefixes written by bind_writer (SpecRT, binary)            *)
(***************************************************************************)
\* the length prefix a binary stream holds at the start of the cells of a
\* list field, decoded as the field's length kind
StoredLength(fld, cells) ==
    FromBytes(list_kind(fld), [i \in 1..sizeofKind(list_kind(fld)) |-> cells[i].b])

\* the number of values the cells hold after the length prefix
ValuesAfter(fld, cells) ==
    (Len(cells) - sizeofKind(list_kind(fld))) \div sizeofKind(variant_kind(fld.type))

\* the body bind_writer appended is the one laid out from its header
BodyAsDeclared ==
    writer'.os = writer.os \o HeaderLines(writer')
                    \o HeaderBodyCells(writer'.format, wspecs', writer'.elements, 1)

\* C23: after bind_writer, for every list field of every row, the length
\* prefix stored in the stream (uint8 for a fixed-capacity list, uint32 for
\* an open-ended one) equals the number of values written after it, for
\* every list size including fixed capacities above 255.
C23_LengthPrefixMatches ==
    [][ (steps' = steps + 1 /\ result'.op = "bind_writer" /\ result'.err = NoErr) =>
          /\ BodyAsDeclared
          /\ \A s \in 1..Len(wspecs') : \A ri \in 1..Len(wspecs'[s].rows) :
                \A fi \in 1..Len(wspecs'[s].fields) :
                   LET fld == wspecs'[s].fields[fi]
                       cells == FieldCells(writer'.format, fld, wspecs'[s].rows[ri][fi])
                   IN  list_kind(fld) # UNUSED =>
                         /\ ValuesAfter(fld, cells) = Len(wspecs'[s].rows[ri][fi])
                         /\ StoredLength(fld, cells) = ValuesAfter(fld, cells) ]_vars

(***************************************************************************)
(* Reading past the end of the body (SpecH)                                *)
(***************************************************************************)
\* the number of cells left unread
Remaining(r) == Len(r.is) - r.pos

\* the stream ends before a value of kind k is complete: binary, fewer
\* bytes left than the kind is wide; ASCII, no token left
Exhausted(r, k) ==
    IF isBinary(r.format) THEN Remaining(r) < sizeofKind(k)
    ELSE \A i \in (r.pos + 1)..Len(r.is) : r.is[i].t # "tok"

\* a readScalar call for a numeric kind
ReadScalarStep ==
    /\ steps' = steps + 1
    /\ result'.op = "readScalar"
    /\ Len(reader'.log) = Len(reader.log) + 1

\* C24: readScalar on a stream that is exhausted before the requested value
\* is complete (binary: fewer bytes left than the kind's width; ASCII: no
\* token left) raises no error and returns the zero value of the requested
\* kind.
C24_ExhaustedReadIsZero ==
    [][ (ReadScalarStep /\ Exhausted(reader, reader'.log[Len(reader'.log)])) =>
          /\ result'.err = NoErr
          /\ result'.value = PlyScalar(reader'.log[Len(reader'.log)], 0) ]_vars

(***************************************************************************)
(* The reservation bounds the memory-mapped writer (SpecM)                 *)
(***************************************************************************)
\* the reservation R the buffer was opened with: the constructor resizes
\* the file to reserve_size and maps all of it
Reservation(m) == Len(m.region)

WriteStep == steps' = steps + 1 /\ result'.op = "write"

CloseStep == steps' = steps + 1 /\ result'.op = "close"

Unmatched(specs, f, s) ==
    \A e \in 1..Len(f.elements) : f.elements[e].name # specs[s].element

\* the descriptor list without its entry s
Without(specs, s) ==
    [i \in 1..(Len(specs) - 1) |-> IF i < s THEN specs[i] ELSE specs[i + 1]]

\* C26: when no element of the file carries the element name of a bound
\* descriptor, bind_reader leaves that descriptor's container unchanged in
\* size and content and the descriptor causes no error: the call ends as
\* the same call without that descriptor ends, so it completes without
\* error whenever the other descriptors fit the file, and it then has
\* consumed the rows of every element of the file.
C26_UnmatchedDescriptorUntouched ==
    [][ (BindReaderStep /\ reader.log = <<>> /\ ~PairConflict(rspecs)) =>
          \A s \in 1..Len(rspecs) :
             Unmatched(rspecs, file, s) =>
                LET other == bind_reader(reader, Without(rspecs, s))
                IN  /\ rspecs'[s] = rspecs[s]
                    /\ result'.err = other.err
                    /\ reader' = other.r
                    /\ Without(rspecs', s) = other.specs
                    /\ (\A e \in 1..Len(file.elements) : Clean(rspecs, file, e)) =>
                          /\ result'.err = NoErr
                          /\ reader'.log = ExpectedLog(file, 1)
                          /\ reader'.pos = Len(reader.is) ]_vars

\* a container with rows, bound to an element name the file does not have,
\* next to a descriptor that was filled from the file's rows
C26_Witness ==
    /\ result.op = "bind_reader"
    /\ result.err = NoErr
    /\ reader.log = ExpectedLog(file, 1)
    /\ reader.log # <<>>
    /\ \E s \in 1..Len(rspecs) :
          /\ Unmatched(rspecs, file, s)
          /\ Len(rspecs[s].rows) = MaxRows
          /\ rspecs[s] = D(RE, rspecs[s].owning, MaxRows, JunkSeed)
    /\ \E s \in 1..Len(rspecs) : \E e \in Live(file) :
          /\ NamedLike(rspecs, file, s, e)
          /\ Len(rspecs[s].rows) = file.elements[e].count

====
